---- MODULE Spec2Model ----
(***************************************************************************)
(* The Monopoly rules engine (backend/game/logic/game_engine.py) as a      *)
(* state machine.  Every engine operation is one action.  An operation is  *)
(* written as an operator from the game record to the set of game records  *)
(* it can return, one per outcome of the dice and of the card drawn.       *)
(*                                                                         *)
(* Positions are 0..39 as in the code.  player_order is indexed from 0 in  *)
(* the code and from 1 here, so player_order[current_player_idx + 1] is    *)
(* the current player.                                                     *)
(***************************************************************************)
EXTENDS Integers, Sequences, FiniteSets, TLC

VARIABLES player_order, players, current_player_idx, phase, tiles, last_dice,
          turn_number, messages, chance_deck, community_deck, result, streak,
          calls

(***************************************************************************)
(* The embedding service (backend/mcp_server.py): the fields of its         *)
(* ServerState, what its last call returned, and its callers.  The engine   *)
(* variables above are the fields of state.game_engine.                     *)
(***************************************************************************)
VARIABLES registered_players, is_game_started, game_id, actions_this_turn,
          reply, lock, request, served

(***************************************************************************)
(* The orchestrator of agent games (backend/agents/game_orchestrator.py,   *)
(* reached through backend/api/routes.py): the fields of GameOrchestrator  *)
(* that decide what a start request does.                                  *)
(***************************************************************************)
VARIABLE orchestrator

engine_vars ==
  <<player_order, players, current_player_idx, phase, tiles, last_dice,
    turn_number, messages, chance_deck, community_deck, result>>

service_vars ==
  <<registered_players, is_game_started, game_id, actions_this_turn, reply,
    lock, request, served>>

vars == <<player_order, players, current_player_idx, phase, tiles, last_dice,
          turn_number, messages, chance_deck, community_deck, result, streak,
          calls, registered_players, is_game_started, game_id,
          actions_this_turn, reply, lock, request, served, orchestrator>>

(***************************************************************************)
(* GamePhase                                                               *)
(***************************************************************************)
WAITING_FOR_ROLL == "waiting_for_roll"
WAITING_FOR_BUY_DECISION == "waiting_for_buy_decision"
IN_JAIL == "in_jail"
TURN_COMPLETE == "turn_complete"
GAME_OVER == "game_over"

GamePhase ==
  {WAITING_FOR_ROLL, WAITING_FOR_BUY_DECISION, IN_JAIL, TURN_COMPLETE, GAME_OVER}

(***************************************************************************)
(* TileType                                                                *)
(***************************************************************************)
GO == "go"
PROPERTY == "property"
RAILROAD == "railroad"
UTILITY == "utility"
TAX == "tax"
CHANCE == "chance"
COMMUNITY_CHEST == "community_chest"
JAIL == "jail"
FREE_PARKING == "free_parking"
GO_TO_JAIL == "go_to_jail"

(***************************************************************************)
(* The board: TILE_DATA[pos + 1] is the entry of position pos, with the    *)
(* defaults initialize() gives to the keys an entry lacks.                 *)
(***************************************************************************)
TILE_DATA ==
  <<
    [type |-> "go", price |-> 0, mortgage |-> 0, color |-> "",
     house_cost |-> 0, rent |-> <<>>, amount |-> 0],
    [type |-> "property", price |-> 60, mortgage |-> 30, color |-> "brown",
     house_cost |-> 50, rent |-> <<2, 10, 30, 90, 160, 250>>, amount |-> 0],
    [type |-> "community_chest", price |-> 0, mortgage |-> 0, color |-> "",
     house_cost |-> 0, rent |-> <<>>, amount |-> 0],
    [type |-> "property", price |-> 60, mortgage |-> 30, color |-> "brown",
     house_cost |-> 50, rent |-> <<4, 20, 60, 180, 320, 450>>, amount |-> 0],
    [type |-> "tax", price |-> 0, mortgage |-> 0, color |-> "",
     house_cost |-> 0, rent |-> <<>>, amount |-> 200],
    [type |-> "railroad", price |-> 200, mortgage |-> 100, color |-> "",
     house_cost |-> 0, rent |-> <<>>, amount |-> 0],
    [type |-> "property", price |-> 100, mortgage |-> 50, color |-> "light_blue",
     house_cost |-> 50, rent |-> <<6, 30, 90, 270, 400, 550>>, amount |-> 0],
    [type |-> "chance", price |-> 0, mortgage |-> 0, color |-> "",
     house_cost |-> 0, rent |-> <<>>, amount |-> 0],
    [type |-> "property", price |-> 100, mortgage |-> 50, color |-> "light_blue",
     house_cost |-> 50, rent |-> <<6, 30, 90, 270, 400, 550>>, amount |-> 0],
    [type |-> "property", price |-> 120, mortgage |-> 60, color |-> "light_blue",
     house_cost |-> 50, rent |-> <<8, 40, 100, 300, 450, 600>>, amount |-> 0],
    [type |-> "jail", price |-> 0, mortgage |-> 0, color |-> "",
     house_cost |-> 0, rent |-> <<>>, amount |-> 0],
    [type |-> "property", price |-> 140, mortgage |-> 70, color |-> "pink",
     house_cost |-> 100, rent |-> <<10, 50, 150, 450, 625, 750>>, amount |-> 0],
    [type |-> "utility", price |-> 150, mortgage |-> 75, color |-> "",
     house_cost |-> 0, rent |-> <<>>, amount |-> 0],
    [type |-> "property", price |-> 140, mortgage |-> 70, color |-> "pink",
     house_cost |-> 100, rent |-> <<10, 50, 150, 450, 625, 750>>, amount |-> 0],
    [type |-> "property", price |-> 160, mortgage |-> 80, color |-> "pink",
     house_cost |-> 100, rent |-> <<12, 60, 180, 500, 700, 900>>, amount |-> 0],
    [type |-> "railroad", price |-> 200, mortgage |-> 100, color |-> "",
     house_cost |-> 0, rent |-> <<>>, amount |-> 0],
    [type |-> "property", price |-> 180, mortgage |-> 90, color |-> "orange",
     house_cost |-> 100, rent |-> <<14, 70, 200, 550, 750, 950>>, amount |-> 0],
    [type |-> "community_chest", price |-> 0, mortgage |-> 0, color |-> "",
     house_cost |-> 0, rent |-> <<>>, amount |-> 0],
    [type |-> "property", price |-> 180, mortgage |-> 90, color |-> "orange",
     house_cost |-> 100, rent |-> <<14, 70, 200, 550, 750, 950>>, amount |-> 0],
    [type |-> "property", price |-> 200, mortgage |-> 100, color |-> "orange",
     house_cost |-> 100, rent |-> <<16, 80, 220, 600, 800, 1000>>, amount |-> 0],
    [type |-> "free_parking", price |-> 0, mortgage |-> 0, color |-> "",
     house_cost |-> 0, rent |-> <<>>, amount |-> 0],
    [type |-> "property", price |-> 220, mortgage |-> 110, color |-> "red",
     house_cost |-> 150, rent |-> <<18, 90, 250, 700, 875, 1050>>, amount |-> 0],
    [type |-> "chance", price |-> 0, mortgage |-> 0, color |-> "",
     house_cost |-> 0, rent |-> <<>>, amount |-> 0],
    [type |-> "property", price |-> 220, mortgage |-> 110, color |-> "red",
     house_cost |-> 150, rent |-> <<18, 90, 250, 700, 875, 1050>>, amount |-> 0],
    [type |-> "property", price |-> 240, mortgage |-> 120, color |-> "red",
     house_cost |-> 150, rent |-> <<20, 100, 300, 750, 925, 1100>>, amount |-> 0],
    [type |-> "railroad", price |-> 200, mortgage |-> 100, color |-> "",
     house_cost |-> 0, rent |-> <<>>, amount |-> 0],
    [type |-> "property", price |-> 260, mortgage |-> 130, color |-> "yellow",
     house_cost |-> 150, rent |-> <<22, 110, 330, 800, 975, 1150>>, amount |-> 0],
    [type |-> "property", price |-> 260, mortgage |-> 130, color |-> "yellow",
     house_cost |-> 150, rent |-> <<22, 110, 330, 800, 975, 1150>>, amount |-> 0],
    [type |-> "utility", price |-> 150, mortgage |-> 75, color |-> "",
     house_cost |-> 0, rent |-> <<>>, amount |-> 0],
    [type |-> "property", price |-> 280, mortgage |-> 140, color |-> "yellow",
     house_cost |-> 150, rent |-> <<24, 120, 360, 850, 1025, 1200>>, amount |-> 0],
    [type |-> "go_to_jail", price |-> 0, mortgage |-> 0, color |-> "",
     house_cost |-> 0, rent |-> <<>>, amount |-> 0],
    [type |-> "property", price |-> 300, mortgage |-> 150, color |-> "green",
     house_cost |-> 200, rent |-> <<26, 130, 390, 900, 1100, 1275>>, amount |-> 0],
    [type |-> "property", price |-> 300, mortgage |-> 150, color |-> "green",
     house_cost |-> 200, rent |-> <<26, 130, 390, 900, 1100, 1275>>, amount |-> 0],
    [type |-> "community_chest", price |-> 0, mortgage |-> 0, color |-> "",
     house_cost |-> 0, rent |-> <<>>, amount |-> 0],
    [type |-> "property", price |-> 320, mortgage |-> 160, color |-> "green",
     house_cost |-> 200, rent |-> <<28, 150, 450, 1000, 1200, 1400>>, amount |-> 0],
    [type |-> "railroad", price |-> 200, mortgage |-> 100, color |-> "",
     house_cost |-> 0, rent |-> <<>>, amount |-> 0],
    [type |-> "chance", price |-> 0, mortgage |-> 0, color |-> "",
     house_cost |-> 0, rent |-> <<>>, amount |-> 0],
    [type |-> "property", price |-> 350, mortgage |-> 175, color |-> "dark_blue",
     house_cost |-> 200, rent |-> <<35, 175, 500, 1100, 1300, 1500>>, amount |-> 0],
    [type |-> "tax", price |-> 0, mortgage |-> 0, color |-> "",
     house_cost |-> 0, rent |-> <<>>, amount |-> 100],
    [type |-> "property", price |-> 400, mortgage |-> 200, color |-> "dark_blue",
     house_cost |-> 200, rent |-> <<50, 200, 600, 1400, 1700, 2000>>, amount |-> 0]
  >>

Positions == 0 .. 39

Tile(pos) == TILE_DATA[pos + 1]

Ownable == {PROPERTY, RAILROAD, UTILITY}

(***************************************************************************)
(* COLOR_GROUPS.get(color, [])                                             *)
(***************************************************************************)
COLOR_GROUPS(color) ==
  CASE color = "brown" -> <<1, 3>>
    [] color = "light_blue" -> <<6, 8, 9>>
    [] color = "pink" -> <<11, 13, 14>>
    [] color = "orange" -> <<16, 18, 19>>
    [] color = "red" -> <<21, 23, 24>>
    [] color = "yellow" -> <<26, 27, 29>>
    [] color = "green" -> <<31, 32, 34>>
    [] color = "dark_blue" -> <<37, 39>>
    [] OTHER -> <<>>

(***************************************************************************)
(* The two card definitions, with 0 for the keys a card lacks.             *)
(***************************************************************************)
CHANCE_CARDS ==
  <<
    [type |-> "move", to |-> 0, amount |-> 0, spaces |-> 0],
    [type |-> "move", to |-> 24, amount |-> 0, spaces |-> 0],
    [type |-> "move", to |-> 39, amount |-> 0, spaces |-> 0],
    [type |-> "move", to |-> 5, amount |-> 0, spaces |-> 0],
    [type |-> "money", to |-> 0, amount |-> 150, spaces |-> 0],
    [type |-> "money", to |-> 0, amount |-> -15, spaces |-> 0],
    [type |-> "jail_card", to |-> 0, amount |-> 0, spaces |-> 0],
    [type |-> "go_to_jail", to |-> 0, amount |-> 0, spaces |-> 0],
    [type |-> "money", to |-> 0, amount |-> 50, spaces |-> 0],
    [type |-> "move_back", to |-> 0, amount |-> 0, spaces |-> 3]
  >>

\* COMMUNITY_CARDS with a first card that sends the player to the Chance
\* tile at 22
COMMUNITY_CARDS_to_chance ==
  <<
    [type |-> "move", to |-> 22, amount |-> 0, spaces |-> 0],
    [type |-> "money", to |-> 0, amount |-> 200, spaces |-> 0],
    [type |-> "money", to |-> 0, amount |-> -50, spaces |-> 0],
    [type |-> "money", to |-> 0, amount |-> 100, spaces |-> 0],
    [type |-> "money", to |-> 0, amount |-> -100, spaces |-> 0],
    [type |-> "jail_card", to |-> 0, amount |-> 0, spaces |-> 0],
    [type |-> "go_to_jail", to |-> 0, amount |-> 0, spaces |-> 0],
    [type |-> "money", to |-> 0, amount |-> 25, spaces |-> 0],
    [type |-> "money", to |-> 0, amount |-> 10, spaces |-> 0],
    [type |-> "money", to |-> 0, amount |-> -150, spaces |-> 0]
  >>

COMMUNITY_CARDS ==
  <<
    [type |-> "move", to |-> 0, amount |-> 0, spaces |-> 0],
    [type |-> "money", to |-> 0, amount |-> 200, spaces |-> 0],
    [type |-> "money", to |-> 0, amount |-> -50, spaces |-> 0],
    [type |-> "money", to |-> 0, amount |-> 100, spaces |-> 0],
    [type |-> "money", to |-> 0, amount |-> -100, spaces |-> 0],
    [type |-> "jail_card", to |-> 0, amount |-> 0, spaces |-> 0],
    [type |-> "go_to_jail", to |-> 0, amount |-> 0, spaces |-> 0],
    [type |-> "money", to |-> 0, amount |-> 25, spaces |-> 0],
    [type |-> "money", to |-> 0, amount |-> 10, spaces |-> 0],
    [type |-> "money", to |-> 0, amount |-> -150, spaces |-> 0]
  >>

(***************************************************************************)
(* Program constants.                                                      *)
(***************************************************************************)
BoardSize == 40
JailPosition == 10
GoBonus == 200
Bail == 50
MaxJailTurns == 3
MaxDoubles == 3
MaxHouses == 5
MaxLog == 50
DieFaces == 6
StartMoney == 1500

Dice == 1 .. DieFaces

(***************************************************************************)
(* Bound of the exploration: the number of engine calls that return a      *)
(* non-error result, counted from the initial state.                       *)
(***************************************************************************)
MaxCalls == 3

NoOwner == "None"
NoWinner == "None"

InSeq(x, s) == \E i \in 1 .. Len(s) : s[i] = x

Min(a, b) == IF a <= b THEN a ELSE b

(***************************************************************************)
(* What the last call returned: status is "error" for a dict with the key  *)
(* "error", "game_over" for end_turn's {"game_over": True, "winner": ...}  *)
(* and "ok" for any other dict; op is the method that returned it (every   *)
(* error dict is taken alike); roll_again is the key roll_and_move adds.   *)
(***************************************************************************)
NoResult ==
  [status |-> "none", op |-> "", roll_again |-> FALSE, winner |-> NoWinner]
OkResult ==
  [status |-> "ok", op |-> "", roll_again |-> FALSE, winner |-> NoWinner]
ErrorResult ==
  [status |-> "error", op |-> "", roll_again |-> FALSE, winner |-> NoWinner]

(***************************************************************************)
(* The engine as one record.                                               *)
(***************************************************************************)
G ==
  [player_order |-> player_order, players |-> players,
   current_player_idx |-> current_player_idx, phase |-> phase, tiles |-> tiles,
   last_dice |-> last_dice, turn_number |-> turn_number, messages |-> messages,
   chance_deck |-> chance_deck, community_deck |-> community_deck,
   result |-> result]

\* a call that returns {"error": ...}: nothing but the returned value differs
error(g) == [g EXCEPT !.result = ErrorResult]

ok(g) == [g EXCEPT !.result = OkResult]

\* the dict of ok(g) returned by the method op
return(g, op) == [g EXCEPT !.result = [OkResult EXCEPT !.op = op]]

\* Player(name=name): the dataclass defaults
Player ==
  [money |-> StartMoney, position |-> 0, properties |-> <<>>, in_jail |-> FALSE,
   jail_turns |-> 0, jail_cards |-> 0, doubles_count |-> 0, bankrupt |-> FALSE]

\* Property(...) with the mortgage flag set by default
PropertyMortgaged == [owner |-> NoOwner, houses |-> 0, is_mortgaged |-> TRUE]

\* Property(...): the mutable fields of a tile
Property == [owner |-> NoOwner, houses |-> 0, is_mortgaged |-> FALSE]

\* the name of the current player
current_player(g) == g.player_order[g.current_player_idx + 1]

\* the position of the tile the current player stands on
current_tile(g) == g.players[current_player(g)].position

\* get_full_state reports self.messages[-10:]
RecentMessages == 10

\* messages[-k:]: the last k entries, all of them when there are fewer
last_entries(entries, k) ==
  IF Len(entries) <= k THEN entries
  ELSE SubSeq(entries, Len(entries) - k + 1, Len(entries))

\* _log with a slice that keeps the first 50 entries
log_keeping_oldest(entries, msg) ==
  LET appended == Append(entries, msg)
  IN IF Len(appended) > MaxLog THEN SubSeq(appended, 1, MaxLog) ELSE appended

\* _log on the list of entries
log_messages(entries, msg) ==
  LET appended == Append(entries, msg)
  IN IF Len(appended) > MaxLog THEN last_entries(appended, MaxLog)
     ELSE appended

\* the "recent_messages" of get_full_state
recent_messages(entries) == last_entries(entries, RecentMessages)

\* _log: append, keep the last 50.  The log is modelled by its length.
log(g) == [g EXCEPT !.messages = IF @ + 1 > MaxLog THEN MaxLog ELSE @ + 1]

\* _send_to_jail
send_to_jail(g, p) ==
  log([g EXCEPT !.players[p].position = JailPosition,
                !.players[p].in_jail = TRUE,
                !.players[p].jail_turns = 0,
                !.players[p].doubles_count = 0,
                !.phase = TURN_COMPLETE])

\* Property.get_rent without the test of the mortgage flag
get_rent_of_mortgaged(g, pos, dice_roll, railroads_owned, utilities_owned) ==
  IF Tile(pos).type = PROPERTY
    THEN Tile(pos).rent[Min(g.tiles[pos].houses, MaxHouses) + 1]
  ELSE IF Tile(pos).type = RAILROAD
    THEN CASE railroads_owned = 1 -> 25
           [] railroads_owned = 2 -> 50
           [] railroads_owned = 3 -> 100
           [] railroads_owned = 4 -> 200
           [] OTHER -> 25
  ELSE IF Tile(pos).type = UTILITY
    THEN dice_roll * (IF utilities_owned = 2 THEN 10 ELSE 4)
  ELSE 0

\* Property.get_rent of the tile at pos
get_rent(g, pos, dice_roll, railroads_owned, utilities_owned) ==
  IF g.tiles[pos].is_mortgaged THEN 0
  ELSE IF Tile(pos).type = PROPERTY
    THEN Tile(pos).rent[Min(g.tiles[pos].houses, MaxHouses) + 1]
  ELSE IF Tile(pos).type = RAILROAD
    THEN CASE railroads_owned = 1 -> 25
           [] railroads_owned = 2 -> 50
           [] railroads_owned = 3 -> 100
           [] railroads_owned = 4 -> 200
           [] OTHER -> 25
  ELSE IF Tile(pos).type = UTILITY
    THEN dice_roll * (IF utilities_owned = 2 THEN 10 ELSE 4)
  ELSE 0

\* the number of tiles of type t among a player's holdings
count_type(g, owner, t) ==
  Len(SelectSeq(g.players[owner].properties, LAMBDA q : Tile(q).type = t))

\* _calculate_rent without the counts of the owner's railroads and utilities
calculate_rent_uncounted(g, pos, dice) == get_rent(g, pos, dice, 1, 1)

\* _calculate_rent
calculate_rent(g, pos, dice) ==
  LET owner == g.tiles[pos].owner
  IN IF Tile(pos).type = RAILROAD
       THEN get_rent(g, pos, 0, count_type(g, owner, RAILROAD), 1)
     ELSE IF Tile(pos).type = UTILITY
       THEN get_rent(g, pos, dice, 1, count_type(g, owner, UTILITY))
     ELSE get_rent(g, pos, 0, 1, 1)

RECURSIVE handle_landing(_, _, _)
RECURSIVE draw_card(_, _, _)

\* _handle_landing with the rent going the other way: taken from the owner
\* and given to the player who landed
handle_landing_rent_reversed(g, p, dice_total) ==
  LET pos == g.players[p].position
      type == Tile(pos).type
      owner == g.tiles[pos].owner
  IN IF type = GO_TO_JAIL THEN {ok(send_to_jail(g, p))}
     ELSE IF type = TAX
       THEN {ok([log([g EXCEPT !.players[p].money = @ - Tile(pos).amount])
                   EXCEPT !.phase = TURN_COMPLETE])}
     ELSE IF type \in {CHANCE, COMMUNITY_CHEST} THEN draw_card(g, p, type)
     ELSE IF type \in Ownable
       THEN IF owner = NoOwner
              THEN {ok([g EXCEPT !.phase = WAITING_FOR_BUY_DECISION])}
            ELSE IF owner # p
              THEN LET rent == calculate_rent(g, pos, dice_total)
                   IN {ok([log([g EXCEPT !.players[p].money = @ + rent,
                                         !.players[owner].money = @ - rent])
                             EXCEPT !.phase = TURN_COMPLETE])}
            ELSE {ok([g EXCEPT !.phase = TURN_COMPLETE])}
     ELSE {ok([g EXCEPT !.phase = TURN_COMPLETE])}

(***************************************************************************)
(* _handle_landing: the set of states the landing of p on the tile p       *)
(* stands on can end in.                                                   *)
(***************************************************************************)
handle_landing(g, p, dice_total) ==
  LET pos == g.players[p].position
      type == Tile(pos).type
      owner == g.tiles[pos].owner
  IN IF type = GO_TO_JAIL THEN {ok(send_to_jail(g, p))}
     ELSE IF type = TAX
       THEN {ok([log([g EXCEPT !.players[p].money = @ - Tile(pos).amount])
                   EXCEPT !.phase = TURN_COMPLETE])}
     ELSE IF type \in {CHANCE, COMMUNITY_CHEST} THEN draw_card(g, p, type)
     ELSE IF type \in Ownable
       THEN IF owner = NoOwner
              THEN {ok([g EXCEPT !.phase = WAITING_FOR_BUY_DECISION])}
            ELSE IF owner # p
              THEN LET rent == calculate_rent(g, pos, dice_total)
                   IN {ok([log([g EXCEPT !.players[p].money = @ - rent,
                                         !.players[owner].money = @ + rent])
                             EXCEPT !.phase = TURN_COMPLETE])}
            ELSE {ok([g EXCEPT !.phase = TURN_COMPLETE])}
     ELSE {ok([g EXCEPT !.phase = TURN_COMPLETE])}

\* the cards that move the player
Moving == {"move", "move_back"}

\* relocate with the 200 for every card that moves the player
relocate_always_crediting(g, p, card) ==
  LET g1 == IF card.type = "move"
              THEN [g EXCEPT !.players[p].position = card.to]
              ELSE [g EXCEPT !.players[p].position =
                               (@ - card.spaces) % BoardSize]
  IN [g1 EXCEPT !.players[p].money = @ + GoBonus, !.phase = TURN_COMPLETE]

\* relocate with the 200 for the card that names GO only
relocate_go_only(g, p, card) ==
  IF card.type = "move"
    THEN LET g1 == [g EXCEPT !.players[p].position = card.to]
             g2 == IF card.to = 0
                     THEN [g1 EXCEPT !.players[p].money = @ + GoBonus]
                     ELSE g1
         IN [g2 EXCEPT !.phase = TURN_COMPLETE]
    ELSE [g EXCEPT !.players[p].position = (@ - card.spaces) % BoardSize,
                   !.phase = TURN_COMPLETE]

\* the state in which a "move" or "move_back" card hands p to
\* _handle_landing
relocate(g, p, card) ==
  IF card.type = "move"
    THEN LET old == g.players[p].position
             g1 == [g EXCEPT !.players[p].position = card.to]
             g2 == IF card.to < old
                     THEN [g1 EXCEPT !.players[p].money = @ + GoBonus]
                     ELSE g1
         IN [g2 EXCEPT !.phase = TURN_COMPLETE]
    ELSE [g EXCEPT !.players[p].position = (@ - card.spaces) % BoardSize,
                   !.phase = TURN_COMPLETE]

\* the effect of a drawn card
apply_card(g, p, card) ==
  IF card.type = "money"
    THEN {ok([g EXCEPT !.players[p].money = @ + card.amount,
                       !.phase = TURN_COMPLETE])}
  ELSE IF card.type \in Moving
    THEN LET g1 == relocate(g, p, card)
         IN handle_landing(g1, p, g1.last_dice[1] + g1.last_dice[2])
  ELSE IF card.type = "jail_card"
    THEN {ok([g EXCEPT !.players[p].jail_cards = @ + 1,
                       !.phase = TURN_COMPLETE])}
  ELSE IF card.type = "go_to_jail" THEN {ok(send_to_jail(g, p))}
  ELSE {ok([g EXCEPT !.phase = TURN_COMPLETE])}

(***************************************************************************)
(* _draw_card.  A deck is the set of the cards left in it, as indices into *)
(* its definition: random.shuffle fixes an order nobody reads before       *)
(* pop(0), so pop(0) takes any card that is left.  On an empty deck the    *)
(* code shuffles a copy of the definition into the local name `deck` and   *)
(* pops from that copy: the engine's own list is not assigned.             *)
(***************************************************************************)
draws(g, card_type) ==
  LET is_chance == card_type = CHANCE
      own == IF is_chance THEN g.chance_deck ELSE g.community_deck
      cards == IF is_chance THEN CHANCE_CARDS ELSE COMMUNITY_CARDS
      deck == IF own = {} THEN DOMAIN cards ELSE own
      pop(c) == IF own = {} THEN g
                ELSE IF is_chance THEN [g EXCEPT !.chance_deck = @ \ {c}]
                ELSE [g EXCEPT !.community_deck = @ \ {c}]
  IN {[card |-> cards[c], game |-> log(pop(c))] : c \in deck}

draw_card(g, p, card_type) ==
  UNION {apply_card(d.game, p, d.card) : d \in draws(g, card_type)}

\* the numbers of calls of _handle_landing that _draw_card can make, one in
\* the other, while the landing of p on the tile p stands on is resolved
RECURSIVE landings(_, _)
landings(g, p) ==
  LET type == Tile(g.players[p].position).type
  IN IF type \notin {CHANCE, COMMUNITY_CHEST} THEN {0}
     ELSE UNION {IF d.card.type \in Moving
                   THEN {1 + n : n \in landings(relocate(d.game, p, d.card), p)}
                   ELSE {0} :
                 d \in draws(g, type)}

\* the movement of roll_and_move: p advances by the dice total and is
\* credited for passing GO
advance(g, p, total) ==
  LET old_pos == g.players[p].position
      new_pos == (old_pos + total) % BoardSize
      g1 == [g EXCEPT !.players[p].position = new_pos]
  IN IF new_pos < old_pos /\ new_pos # JailPosition
       THEN log([g1 EXCEPT !.players[p].money = @ + GoBonus])
       ELSE g1

\* the number of times the movement of roll_and_move credits the 200: what
\* it adds to the cash of p, in units of the bonus
dice_credits(g, p, total) ==
  (advance(g, p, total).players[p].money - g.players[p].money) \div GoBonus

\* the numbers of times the cards can credit the 200 while the landing of p
\* on the tile p stands on is resolved: what each relocation adds to the
\* cash of p, in units of the bonus, summed along the chain of cards
RECURSIVE card_credits(_, _)
card_credits(g, p) ==
  LET type == Tile(g.players[p].position).type
  IN IF type \notin {CHANCE, COMMUNITY_CHEST} THEN {0}
     ELSE UNION {IF d.card.type \in Moving
                   THEN LET g1 == relocate(d.game, p, d.card)
                            n1 == (g1.players[p].money
                                     - d.game.players[p].money) \div GoBonus
                        IN {n1 + n : n \in card_credits(g1, p)}
                   ELSE {0} :
                 d \in draws(g, type)}

\* the end of roll_and_move without the test of the phase: any double rolls
\* again
override_any_phase(h, is_doubles) ==
  IF is_doubles
    THEN [h EXCEPT !.phase = WAITING_FOR_ROLL, !.result.roll_again = TRUE]
    ELSE h

\* the end of roll_and_move: a double that left the turn complete rolls again
doubles_override(h, is_doubles) ==
  IF is_doubles /\ h.phase = TURN_COMPLETE
    THEN [h EXCEPT !.phase = WAITING_FOR_ROLL, !.result.roll_again = TRUE]
    ELSE h

\* roll_and_move once the phase allows it, with the dice d1 and d2
roll_dice(g, d1, d2) ==
  LET p == current_player(g)
      total == d1 + d2
      is_doubles == d1 = d2
      g1 == log([g EXCEPT !.last_dice = <<d1, d2>>])
      g2 == IF is_doubles THEN [g1 EXCEPT !.players[p].doubles_count = @ + 1]
            ELSE [g1 EXCEPT !.players[p].doubles_count = 0]
  IN IF is_doubles /\ g2.players[p].doubles_count >= MaxDoubles
       THEN {return(send_to_jail(g2, p), "roll_and_move")}
     ELSE {doubles_override(return(h, "roll_and_move"), is_doubles) :
             h \in handle_landing(log(advance(g2, p, total)), p, total)}

\* roll_and_move
roll_and_move(g) ==
  IF g.phase = IN_JAIL THEN {error(g)}
  ELSE IF g.phase # WAITING_FOR_ROLL THEN {error(g)}
  ELSE UNION {roll_dice(g, d1, d2) : d1 \in Dice, d2 \in Dice}

\* buy_current_property without the append to the holdings of the buyer
buy_unrecorded(g) ==
  LET p == current_player(g)
      pos == current_tile(g)
  IN IF g.phase # WAITING_FOR_BUY_DECISION THEN {error(g)}
     ELSE IF g.players[p].money < Tile(pos).price THEN {error(g)}
     ELSE {return([log([g EXCEPT !.players[p].money = @ - Tile(pos).price,
                                 !.tiles[pos].owner = p])
                     EXCEPT !.phase = TURN_COMPLETE], "buy_current_property")}

\* buy_current_property charging the price before it tests the cash
buy_charging_first(g) ==
  LET p == current_player(g)
      pos == current_tile(g)
      g1 == [g EXCEPT !.players[p].money = @ - Tile(pos).price]
  IN IF g.phase # WAITING_FOR_BUY_DECISION THEN {error(g)}
     ELSE IF g1.players[p].money < 0 THEN {error(g1)}
     ELSE {return([log([g1 EXCEPT !.tiles[pos].owner = p,
                                  !.players[p].properties = Append(@, pos)])
                     EXCEPT !.phase = TURN_COMPLETE], "buy_current_property")}

\* buy_current_property without the test of the cash
buy_on_credit(g) ==
  LET p == current_player(g)
      pos == current_tile(g)
  IN IF g.phase # WAITING_FOR_BUY_DECISION THEN {error(g)}
     ELSE {return([log([g EXCEPT !.players[p].money = @ - Tile(pos).price,
                                 !.tiles[pos].owner = p,
                                 !.players[p].properties = Append(@, pos)])
                     EXCEPT !.phase = TURN_COMPLETE], "buy_current_property")}

\* buy_current_property
buy_current_property(g) ==
  LET p == current_player(g)
      pos == current_tile(g)
  IN IF g.phase # WAITING_FOR_BUY_DECISION THEN {error(g)}
     ELSE IF g.players[p].money < Tile(pos).price THEN {error(g)}
     ELSE {return([log([g EXCEPT !.players[p].money = @ - Tile(pos).price,
                             !.tiles[pos].owner = p,
                             !.players[p].properties = Append(@, pos)])
                 EXCEPT !.phase = TURN_COMPLETE], "buy_current_property")}

\* decline_purchase without the test of the phase
decline_in_any_phase(g) ==
  {return(log([g EXCEPT !.phase = TURN_COMPLETE]), "decline_purchase")}

\* decline_purchase
decline_purchase(g) ==
  IF g.phase # WAITING_FOR_BUY_DECISION THEN {error(g)}
  ELSE {return(log([g EXCEPT !.phase = TURN_COMPLETE]), "decline_purchase")}

\* pay_bail without the test of the cash
pay_bail_on_credit(g) ==
  LET p == current_player(g)
  IN IF ~g.players[p].in_jail THEN {error(g)}
     ELSE {return(log([g EXCEPT !.players[p].money = @ - Bail,
                                !.players[p].in_jail = FALSE,
                                !.players[p].jail_turns = 0,
                                !.phase = WAITING_FOR_ROLL]), "pay_bail")}

\* pay_bail
pay_bail(g) ==
  LET p == current_player(g)
  IN IF ~g.players[p].in_jail THEN {error(g)}
     ELSE IF g.players[p].money < Bail THEN {error(g)}
     ELSE {return(log([g EXCEPT !.players[p].money = @ - Bail,
                            !.players[p].in_jail = FALSE,
                            !.players[p].jail_turns = 0,
                            !.phase = WAITING_FOR_ROLL]), "pay_bail")}

\* use_jail_card without the test of the number of cards held
use_jail_card_unheld(g) ==
  LET p == current_player(g)
  IN IF ~g.players[p].in_jail THEN {error(g)}
     ELSE {return(log([g EXCEPT !.players[p].jail_cards = @ - 1,
                                !.players[p].in_jail = FALSE,
                                !.players[p].jail_turns = 0,
                                !.phase = WAITING_FOR_ROLL]), "use_jail_card")}

\* use_jail_card
use_jail_card(g) ==
  LET p == current_player(g)
  IN IF ~g.players[p].in_jail THEN {error(g)}
     ELSE IF g.players[p].jail_cards < 1 THEN {error(g)}
     ELSE {return(log([g EXCEPT !.players[p].jail_cards = @ - 1,
                            !.players[p].in_jail = FALSE,
                            !.players[p].jail_turns = 0,
                            !.phase = WAITING_FOR_ROLL]), "use_jail_card")}

\* jail_dice without the release on the third failed attempt
jail_dice_unlimited(g, d1, d2) ==
  LET p == current_player(g)
      g1 == log([g EXCEPT !.last_dice = <<d1, d2>>])
  IN IF d1 = d2
       THEN ok(log([g1 EXCEPT !.players[p].in_jail = FALSE,
                              !.players[p].jail_turns = 0,
                              !.phase = WAITING_FOR_ROLL]))
     ELSE ok([g1 EXCEPT !.players[p].jail_turns = @ + 1,
                        !.phase = TURN_COMPLETE])

\* roll_for_doubles once the player is known to be in jail, with the dice
jail_dice(g, d1, d2) ==
  LET p == current_player(g)
      g1 == log([g EXCEPT !.last_dice = <<d1, d2>>])
  IN IF d1 = d2
       THEN ok(log([g1 EXCEPT !.players[p].in_jail = FALSE,
                              !.players[p].jail_turns = 0,
                              !.phase = WAITING_FOR_ROLL]))
     ELSE LET g2 == [g1 EXCEPT !.players[p].jail_turns = @ + 1]
          IN IF g2.players[p].jail_turns >= MaxJailTurns
               THEN ok(log([g2 EXCEPT !.players[p].money = @ - Bail,
                                      !.players[p].in_jail = FALSE,
                                      !.players[p].jail_turns = 0,
                                      !.phase = WAITING_FOR_ROLL]))
             ELSE ok([g2 EXCEPT !.phase = TURN_COMPLETE])

\* roll_for_doubles
roll_for_doubles(g) ==
  IF ~g.players[current_player(g)].in_jail THEN {error(g)}
  ELSE {return(jail_dice(g, d1, d2), "roll_for_doubles") :
          d1 \in Dice, d2 \in Dice}

\* is_buildable without the comparison with the least-built tile of the group
is_buildable_uneven(g, p, pos) ==
  /\ ~(\/ Tile(pos).type # PROPERTY
       \/ g.tiles[pos].houses >= MaxHouses
       \/ g.tiles[pos].is_mortgaged)
  /\ LET group == COLOR_GROUPS(Tile(pos).color)
     IN /\ \A i \in 1 .. Len(group) : InSeq(group[i], g.players[p].properties)
        /\ g.players[p].money >= Tile(pos).house_cost

\* the test of _get_buildable_properties on one holding of p
is_buildable(g, p, pos) ==
  /\ ~(\/ Tile(pos).type # PROPERTY
       \/ g.tiles[pos].houses >= MaxHouses
       \/ g.tiles[pos].is_mortgaged)
  /\ LET group == COLOR_GROUPS(Tile(pos).color)
     IN /\ \A i \in 1 .. Len(group) : InSeq(group[i], g.players[p].properties)
        /\ \A i \in 1 .. Len(group) :
             g.tiles[pos].houses <= g.tiles[group[i]].houses
        /\ g.players[p].money >= Tile(pos).house_cost

\* _get_buildable_properties
get_buildable_properties(g, p) ==
  SelectSeq(g.players[p].properties, LAMBDA pos : is_buildable(g, p, pos))

(***************************************************************************)
(* get_available_actions: the action names of the returned list, and the   *)
(* positions the build_house entry of the list names (none when the entry  *)
(* is not in the list).  The call changes nothing.                         *)
(***************************************************************************)
get_available_actions(g) ==
  LET p == current_player(g)
      by_phase ==
        IF g.phase = WAITING_FOR_ROLL THEN {"roll_dice_and_move"}
        ELSE IF g.phase = IN_JAIL
          THEN {"roll_for_doubles", "pay_jail_bail"}
                 \cup (IF g.players[p].jail_cards > 0
                         THEN {"use_jail_card"} ELSE {})
        ELSE IF g.phase = WAITING_FOR_BUY_DECISION
          THEN {"buy_property", "decline_purchase"}
        ELSE IF g.phase = TURN_COMPLETE THEN {"end_turn"}
        ELSE {}
      buildable == IF g.phase # GAME_OVER
                     THEN get_buildable_properties(g, p)
                     ELSE <<>>
  IN [current_player |-> p,
      phase |-> g.phase,
      actions |-> by_phase
                    \cup (IF buildable # <<>> THEN {"build_house"} ELSE {}),
      build_house |-> buildable]

\* build_house
build_house(g, position) ==
  LET p == current_player(g)
  IN IF ~InSeq(position, g.players[p].properties) THEN {error(g)}
     ELSE IF ~InSeq(position, get_buildable_properties(g, p)) THEN {error(g)}
     ELSE {return(log([g EXCEPT !.players[p].money =
                                  @ - Tile(position).house_cost,
                                !.tiles[position].houses = @ + 1]),
                  "build_house")}

\* mortgage_property without the test of the houses
mortgage_with_houses(g, position) ==
  LET p == current_player(g)
  IN IF ~InSeq(position, g.players[p].properties) THEN {error(g)}
     ELSE IF g.tiles[position].is_mortgaged THEN {error(g)}
     ELSE {return(log([g EXCEPT !.tiles[position].is_mortgaged = TRUE,
                                !.players[p].money =
                                  @ + Tile(position).mortgage]),
                  "mortgage_property")}

\* mortgage_property
mortgage_property(g, position) ==
  LET p == current_player(g)
  IN IF ~InSeq(position, g.players[p].properties) THEN {error(g)}
     ELSE IF g.tiles[position].is_mortgaged THEN {error(g)}
     ELSE IF g.tiles[position].houses > 0 THEN {error(g)}
     ELSE {return(log([g EXCEPT !.tiles[position].is_mortgaged = TRUE,
                                !.players[p].money =
                                  @ + Tile(position).mortgage]),
                  "mortgage_property")}

\* the cost of unmortgaging without the 10% on top
mortgage_value(position) == Tile(position).mortgage

\* int(tile.mortgage_value * 1.1): the float product truncated.  For every
\* mortgage value of the board it equals the integer (value * 11) \div 10.
unmortgage_cost(position) == (Tile(position).mortgage * 11) \div 10

\* unmortgage_property ending with self.phase = TURN_COMPLETE, as the
\* methods of the turn do
unmortgage_completing(g, position) ==
  LET p == current_player(g)
      cost == unmortgage_cost(position)
  IN IF ~InSeq(position, g.players[p].properties) THEN {error(g)}
     ELSE IF ~g.tiles[position].is_mortgaged THEN {error(g)}
     ELSE IF g.players[p].money < cost THEN {error(g)}
     ELSE {return([log([g EXCEPT !.players[p].money = @ - cost,
                                 !.tiles[position].is_mortgaged = FALSE])
                     EXCEPT !.phase = TURN_COMPLETE],
                  "unmortgage_property")}

\* unmortgage_property
unmortgage_property(g, position) ==
  LET p == current_player(g)
      cost == unmortgage_cost(position)
  IN IF ~InSeq(position, g.players[p].properties) THEN {error(g)}
     ELSE IF ~g.tiles[position].is_mortgaged THEN {error(g)}
     ELSE IF g.players[p].money < cost THEN {error(g)}
     ELSE {return(log([g EXCEPT !.players[p].money = @ - cost,
                                !.tiles[position].is_mortgaged = FALSE]),
                  "unmortgage_property")}

\* active_players without the test of the bankrupt flag
every_player(g) == g.player_order

\* the players of player_order that are not bankrupt, in order
active_players(g) ==
  SelectSeq(g.player_order, LAMBDA n : ~g.players[n].bankrupt)

\* the while loop of end_turn left out: the index is taken as it is
no_skip(g, idx) == idx

RECURSIVE skip_bankrupt(_, _)
\* the while loop of end_turn: the first index from idx on, cyclically, whose
\* player is not bankrupt
skip_bankrupt(g, idx) ==
  IF g.players[g.player_order[idx + 1]].bankrupt
    THEN skip_bankrupt(g, (idx + 1) % Len(g.player_order))
    ELSE idx

\* end_turn without the look at the jail flag of the new current player
end_turn_to_roll(g) ==
  IF g.phase # TURN_COMPLETE THEN {error(g)}
  ELSE LET p == current_player(g)
           g1 == [g EXCEPT !.players[p].doubles_count = 0]
           g2 == IF g1.players[p].money < 0
                   THEN log([g1 EXCEPT !.players[p].bankrupt = TRUE])
                   ELSE g1
           active == active_players(g2)
       IN IF Len(active) <= 1
            THEN {[g2 EXCEPT !.phase = GAME_OVER,
                             !.result = [status |-> "game_over",
                                         op |-> "end_turn",
                                         roll_again |-> FALSE,
                                         winner |-> IF Len(active) > 0
                                                      THEN active[1]
                                                      ELSE NoWinner]]}
          ELSE LET idx == skip_bankrupt(g2, (g2.current_player_idx + 1)
                                              % Len(g2.player_order))
               IN {return([g2 EXCEPT !.current_player_idx = idx,
                                     !.turn_number = @ + 1,
                                     !.phase = WAITING_FOR_ROLL],
                          "end_turn")}

\* end_turn
end_turn(g) ==
  IF g.phase # TURN_COMPLETE THEN {error(g)}
  ELSE LET p == current_player(g)
           g1 == [g EXCEPT !.players[p].doubles_count = 0]
           g2 == IF g1.players[p].money < 0
                   THEN log([g1 EXCEPT !.players[p].bankrupt = TRUE])
                   ELSE g1
           active == active_players(g2)
       IN IF Len(active) <= 1
            THEN {[g2 EXCEPT !.phase = GAME_OVER,
                             !.result = [status |-> "game_over",
                                         op |-> "end_turn",
                                         roll_again |-> FALSE,
                                         winner |-> IF Len(active) > 0
                                                      THEN active[1]
                                                      ELSE NoWinner]]}
          ELSE LET idx == skip_bankrupt(g2, (g2.current_player_idx + 1)
                                              % Len(g2.player_order))
                   g3 == [g2 EXCEPT !.current_player_idx = idx,
                                    !.turn_number = @ + 1]
               IN {return([g3 EXCEPT !.phase =
                             IF g3.players[current_player(g3)].in_jail
                               THEN IN_JAIL ELSE WAITING_FOR_ROLL],
                          "end_turn")}

(***************************************************************************)
(* __init__ and initialize for the player names given: every player with   *)
(* the dataclass defaults, every tile unowned, both decks full, and one    *)
(* log entry per tile (the append is inside the loop over TILE_DATA).      *)
(***************************************************************************)
initialize(player_names) ==
  [player_order |-> player_names,
   players |-> [n \in {player_names[i] : i \in 1 .. Len(player_names)} |-> Player],
   current_player_idx |-> 0,
   phase |-> WAITING_FOR_ROLL,
   tiles |-> [pos \in Positions |-> Property],
   last_dice |-> <<0, 0>>,
   turn_number |-> 0,
   messages |-> BoardSize,
   chance_deck |-> DOMAIN CHANCE_CARDS,
   community_deck |-> DOMAIN COMMUNITY_CARDS,
   result |-> NoResult]

\* the player lists the engine is constructed with
PlayerLists == {<<"A", "B">>, <<"A", "B", "C">>}

(***************************************************************************)
(* Four states of one play  of the engine by A, B and C, each taken at the *)
(* start of a turn.  In that play A bought 3, 6, 37, 39 and 1 and built 3  *)
(* and 4 houses on 1 and 3; B bought 5, 8 and 15 and mortgaged 8; C bought *)
(* 9; nine Chance cards and eight Community Chest cards were drawn, among  *)
(* them a jail card by B and one by C, which C used; and the players       *)
(* mortgaged and unmortgaged holdings, paying the 10% each time.           *)
(*                                                                         *)
(* BeforeBankruptcy: C is to roll on 31 with 65 in hand.                   *)
(* OnBoardwalk: C went bankrupt on the Luxury Tax, B was sent to jail by   *)
(* a card and failed two rolls for doubles, A drew the last Chance card,   *)
(* Advance to Boardwalk, and is to roll on 39.                             *)
(* LastJailTurn: A rolled 5 and 6 from 39 to 10 and ended the turn; B is   *)
(* in jail for the third turn with 30 in hand.                             *)
(* ForcedBail: B failed the third roll for doubles and was charged the     *)
(* bail; B is to roll on 10 with -20 in hand.                              *)
(***************************************************************************)
BeforeBankruptcy ==
  [player_order |-> <<"A", "B", "C">>,
   players |->
     [n \in {"A", "B", "C"} |->
        CASE n = "A" ->
            [money |-> 580, position |-> 10, properties |-> <<3, 6, 37, 39, 1>>,
             in_jail |-> FALSE, jail_turns |-> 0, jail_cards |-> 0,
             doubles_count |-> 0, bankrupt |-> FALSE]
          [] n = "B" ->
            [money |-> 2185, position |-> 23, properties |-> <<5, 8, 15>>,
             in_jail |-> FALSE, jail_turns |-> 0, jail_cards |-> 1,
             doubles_count |-> 0, bankrupt |-> FALSE]
          [] n = "C" ->
            [money |-> 65, position |-> 31, properties |-> <<9>>,
             in_jail |-> FALSE, jail_turns |-> 0, jail_cards |-> 0,
             doubles_count |-> 0, bankrupt |-> FALSE]],
   current_player_idx |-> 2,
   phase |-> WAITING_FOR_ROLL,
   tiles |->
     [pos \in Positions |->
        CASE pos = 1 -> [owner |-> "A", houses |-> 3, is_mortgaged |-> FALSE]
          [] pos = 3 -> [owner |-> "A", houses |-> 4, is_mortgaged |-> FALSE]
          [] pos = 5 -> [owner |-> "B", houses |-> 0, is_mortgaged |-> FALSE]
          [] pos = 6 -> [owner |-> "A", houses |-> 0, is_mortgaged |-> FALSE]
          [] pos = 8 -> [owner |-> "B", houses |-> 0, is_mortgaged |-> TRUE]
          [] pos = 9 -> [owner |-> "C", houses |-> 0, is_mortgaged |-> FALSE]
          [] pos = 15 -> [owner |-> "B", houses |-> 0, is_mortgaged |-> FALSE]
          [] pos = 37 -> [owner |-> "A", houses |-> 0, is_mortgaged |-> FALSE]
          [] pos = 39 -> [owner |-> "A", houses |-> 0, is_mortgaged |-> FALSE]
          [] OTHER -> Property],
   last_dice |-> <<1, 2>>,
   turn_number |-> 44,
   messages |-> 50,
   chance_deck |-> {3},
   community_deck |-> {5, 7},
   result |-> NoResult]

OnBoardwalk ==
  [player_order |-> <<"A", "B", "C">>,
   players |->
     [n \in {"A", "B", "C"} |->
        CASE n = "A" ->
            [money |-> 115, position |-> 39, properties |-> <<3, 6, 37, 39, 1>>,
             in_jail |-> FALSE, jail_turns |-> 0, jail_cards |-> 0,
             doubles_count |-> 0, bankrupt |-> FALSE]
          [] n = "B" ->
            [money |-> 30, position |-> 10, properties |-> <<5, 8, 15>>,
             in_jail |-> TRUE, jail_turns |-> 2, jail_cards |-> 1,
             doubles_count |-> 0, bankrupt |-> FALSE]
          [] n = "C" ->
            [money |-> -35, position |-> 38, properties |-> <<9>>,
             in_jail |-> FALSE, jail_turns |-> 0, jail_cards |-> 0,
             doubles_count |-> 0, bankrupt |-> TRUE]],
   current_player_idx |-> 0,
   phase |-> WAITING_FOR_ROLL,
   tiles |->
     [pos \in Positions |->
        CASE pos = 1 -> [owner |-> "A", houses |-> 3, is_mortgaged |-> FALSE]
          [] pos = 3 -> [owner |-> "A", houses |-> 4, is_mortgaged |-> FALSE]
          [] pos = 5 -> [owner |-> "B", houses |-> 0, is_mortgaged |-> FALSE]
          [] pos = 6 -> [owner |-> "A", houses |-> 0, is_mortgaged |-> FALSE]
          [] pos = 8 -> [owner |-> "B", houses |-> 0, is_mortgaged |-> TRUE]
          [] pos = 9 -> [owner |-> "C", houses |-> 0, is_mortgaged |-> FALSE]
          [] pos = 15 -> [owner |-> "B", houses |-> 0, is_mortgaged |-> FALSE]
          [] pos = 37 -> [owner |-> "A", houses |-> 0, is_mortgaged |-> TRUE]
          [] pos = 39 -> [owner |-> "A", houses |-> 0, is_mortgaged |-> FALSE]
          [] OTHER -> Property],
   last_dice |-> <<1, 2>>,
   turn_number |-> 51,
   messages |-> 50,
   chance_deck |-> {},
   community_deck |-> {5},
   result |-> NoResult]

LastJailTurn ==
  [player_order |-> <<"A", "B", "C">>,
   players |->
     [n \in {"A", "B", "C"} |->
        CASE n = "A" ->
            [money |-> 115, position |-> 10, properties |-> <<3, 6, 37, 39, 1>>,
             in_jail |-> FALSE, jail_turns |-> 0, jail_cards |-> 0,
             doubles_count |-> 0, bankrupt |-> FALSE]
          [] n = "B" ->
            [money |-> 30, position |-> 10, properties |-> <<5, 8, 15>>,
             in_jail |-> TRUE, jail_turns |-> 2, jail_cards |-> 1,
             doubles_count |-> 0, bankrupt |-> FALSE]
          [] n = "C" ->
            [money |-> -35, position |-> 38, properties |-> <<9>>,
             in_jail |-> FALSE, jail_turns |-> 0, jail_cards |-> 0,
             doubles_count |-> 0, bankrupt |-> TRUE]],
   current_player_idx |-> 1,
   phase |-> IN_JAIL,
   tiles |->
     [pos \in Positions |->
        CASE pos = 1 -> [owner |-> "A", houses |-> 3, is_mortgaged |-> FALSE]
          [] pos = 3 -> [owner |-> "A", houses |-> 4, is_mortgaged |-> FALSE]
          [] pos = 5 -> [owner |-> "B", houses |-> 0, is_mortgaged |-> FALSE]
          [] pos = 6 -> [owner |-> "A", houses |-> 0, is_mortgaged |-> FALSE]
          [] pos = 8 -> [owner |-> "B", houses |-> 0, is_mortgaged |-> TRUE]
          [] pos = 9 -> [owner |-> "C", houses |-> 0, is_mortgaged |-> FALSE]
          [] pos = 15 -> [owner |-> "B", houses |-> 0, is_mortgaged |-> FALSE]
          [] pos = 37 -> [owner |-> "A", houses |-> 0, is_mortgaged |-> TRUE]
          [] pos = 39 -> [owner |-> "A", houses |-> 0, is_mortgaged |-> FALSE]
          [] OTHER -> Property],
   last_dice |-> <<5, 6>>,
   turn_number |-> 52,
   messages |-> 50,
   chance_deck |-> {},
   community_deck |-> {5},
   result |-> NoResult]

ForcedBail ==
  [player_order |-> <<"A", "B", "C">>,
   players |->
     [n \in {"A", "B", "C"} |->
        CASE n = "A" ->
            [money |-> 115, position |-> 10, properties |-> <<3, 6, 37, 39, 1>>,
             in_jail |-> FALSE, jail_turns |-> 0, jail_cards |-> 0,
             doubles_count |-> 0, bankrupt |-> FALSE]
          [] n = "B" ->
            [money |-> -20, position |-> 10, properties |-> <<5, 8, 15>>,
             in_jail |-> FALSE, jail_turns |-> 0, jail_cards |-> 1,
             doubles_count |-> 0, bankrupt |-> FALSE]
          [] n = "C" ->
            [money |-> -35, position |-> 38, properties |-> <<9>>,
             in_jail |-> FALSE, jail_turns |-> 0, jail_cards |-> 0,
             doubles_count |-> 0, bankrupt |-> TRUE]],
   current_player_idx |-> 1,
   phase |-> WAITING_FOR_ROLL,
   tiles |->
     [pos \in Positions |->
        CASE pos = 1 -> [owner |-> "A", houses |-> 3, is_mortgaged |-> FALSE]
          [] pos = 3 -> [owner |-> "A", houses |-> 4, is_mortgaged |-> FALSE]
          [] pos = 5 -> [owner |-> "B", houses |-> 0, is_mortgaged |-> FALSE]
          [] pos = 6 -> [owner |-> "A", houses |-> 0, is_mortgaged |-> FALSE]
          [] pos = 8 -> [owner |-> "B", houses |-> 0, is_mortgaged |-> TRUE]
          [] pos = 9 -> [owner |-> "C", houses |-> 0, is_mortgaged |-> FALSE]
          [] pos = 15 -> [owner |-> "B", houses |-> 0, is_mortgaged |-> FALSE]
          [] pos = 37 -> [owner |-> "A", houses |-> 0, is_mortgaged |-> TRUE]
          [] pos = 39 -> [owner |-> "A", houses |-> 0, is_mortgaged |-> FALSE]
          [] OTHER -> Property],
   last_dice |-> <<1, 2>>,
   turn_number |-> 52,
   messages |-> 50,
   chance_deck |-> {},
   community_deck |-> {5},
   result |-> NoResult]

(***************************************************************************)
(* Two states of a second play, by A and B, each taken at the start of a   *)
(* turn of B.  In that play A bought 5, 12, 15, 25 and 28; B bought 3, 19, *)
(* 39 and 1, built one house on 1 and two on 3, and mortgaged and          *)
(* unmortgaged 19 and 39, paying the 10% each time; no card was drawn.     *)
(*                                                                         *)
(* OneUtility: A holds one railroad and one utility, B is to roll on 3.    *)
(* BothUtilities: A holds three railroads and both utilities, B is to roll *)
(* on 20 with 60 in hand.                                                  *)
(***************************************************************************)
OneUtility ==
  [player_order |-> <<"A", "B">>,
   players |->
     [n \in {"A", "B"} |->
        CASE n = "A" ->
            [money |-> 1150, position |-> 12, properties |-> <<5, 12>>,
             in_jail |-> FALSE, jail_turns |-> 0, jail_cards |-> 0,
             doubles_count |-> 0, bankrupt |-> FALSE]
          [] n = "B" ->
            [money |-> 1440, position |-> 3, properties |-> <<3>>,
             in_jail |-> FALSE, jail_turns |-> 0, jail_cards |-> 0,
             doubles_count |-> 0, bankrupt |-> FALSE]],
   current_player_idx |-> 1,
   phase |-> WAITING_FOR_ROLL,
   tiles |->
     [pos \in Positions |->
        CASE pos = 3 -> [owner |-> "B", houses |-> 0, is_mortgaged |-> FALSE]
          [] pos = 5 -> [owner |-> "A", houses |-> 0, is_mortgaged |-> FALSE]
          [] pos = 12 -> [owner |-> "A", houses |-> 0, is_mortgaged |-> FALSE]
          [] OTHER -> Property],
   last_dice |-> <<1, 6>>,
   turn_number |-> 3,
   messages |-> 49,
   chance_deck |-> {1, 2, 3, 4, 5, 6, 7, 8, 9, 10},
   community_deck |-> {1, 2, 3, 4, 5, 6, 7, 8, 9, 10},
   result |-> NoResult]

BothUtilities ==
  [player_order |-> <<"A", "B">>,
   players |->
     [n \in {"A", "B"} |->
        CASE n = "A" ->
            [money |-> 800, position |-> 11, properties |-> <<5, 12, 15, 25, 28>>,
             in_jail |-> FALSE, jail_turns |-> 0, jail_cards |-> 0,
             doubles_count |-> 0, bankrupt |-> FALSE]
          [] n = "B" ->
            [money |-> 60, position |-> 20, properties |-> <<3, 19, 39, 1>>,
             in_jail |-> FALSE, jail_turns |-> 0, jail_cards |-> 0,
             doubles_count |-> 0, bankrupt |-> FALSE]],
   current_player_idx |-> 1,
   phase |-> WAITING_FOR_ROLL,
   tiles |->
     [pos \in Positions |->
        CASE pos = 1 -> [owner |-> "B", houses |-> 1, is_mortgaged |-> FALSE]
          [] pos = 3 -> [owner |-> "B", houses |-> 2, is_mortgaged |-> FALSE]
          [] pos = 5 -> [owner |-> "A", houses |-> 0, is_mortgaged |-> FALSE]
          [] pos = 12 -> [owner |-> "A", houses |-> 0, is_mortgaged |-> FALSE]
          [] pos = 15 -> [owner |-> "A", houses |-> 0, is_mortgaged |-> FALSE]
          [] pos = 19 -> [owner |-> "B", houses |-> 0, is_mortgaged |-> FALSE]
          [] pos = 25 -> [owner |-> "A", houses |-> 0, is_mortgaged |-> FALSE]
          [] pos = 28 -> [owner |-> "A", houses |-> 0, is_mortgaged |-> FALSE]
          [] pos = 39 -> [owner |-> "B", houses |-> 0, is_mortgaged |-> FALSE]
          [] OTHER -> Property],
   last_dice |-> <<1, 2>>,
   turn_number |-> 23,
   messages |-> 50,
   chance_deck |-> {1, 2, 3, 4, 5, 6, 7, 8, 9, 10},
   community_deck |-> {1, 2, 3, 4, 5, 6, 7, 8, 9, 10},
   result |-> NoResult]

(***************************************************************************)
(* A state of a third play, made through the service: A and B registered,  *)
(* the game was started, A rolled 3 and 4 onto Chance, drew Go to Jail and *)
(* ended the turn, B rolled 4 and 6 to Just Visiting and ended the turn.   *)
(*                                                                         *)
(* InJail: A is to act in jail, in phase IN_JAIL.                          *)
(***************************************************************************)
InJail ==
  [player_order |-> <<"A", "B">>,
   players |->
     [n \in {"A", "B"} |->
        CASE n = "A" ->
            [money |-> 1500, position |-> 10, properties |-> <<>>,
             in_jail |-> TRUE, jail_turns |-> 0, jail_cards |-> 0,
             doubles_count |-> 0, bankrupt |-> FALSE]
          [] n = "B" ->
            [money |-> 1500, position |-> 10, properties |-> <<>>,
             in_jail |-> FALSE, jail_turns |-> 0, jail_cards |-> 0,
             doubles_count |-> 0, bankrupt |-> FALSE]],
   current_player_idx |-> 0,
   phase |-> IN_JAIL,
   tiles |-> [pos \in Positions |-> Property],
   last_dice |-> <<4, 6>>,
   turn_number |-> 2,
   messages |-> 46,
   chance_deck |-> {1, 2, 3, 4, 5, 6, 7, 9, 10},
   community_deck |-> {1, 2, 3, 4, 5, 6, 7, 8, 9, 10},
   result |-> NoResult]

(***************************************************************************)
(* A state of a fourth play, made through the service: A and B registered, *)
(* the game was started, and for 99 turns the player to move rolled onto   *)
(* a tile that is no tax, card or Go To Jail tile, declined the purchase   *)
(* when one was offered, and ended the turn.                               *)
(*                                                                         *)
(* LastTurn: B is to roll on 31 in turn 99.                                *)
(***************************************************************************)
LastTurn ==
  [player_order |-> <<"A", "B">>,
   players |->
     [n \in {"A", "B"} |->
        CASE n = "A" ->
             [money |-> 2100, position |-> 34, properties |-> <<>>,
              in_jail |-> FALSE, jail_turns |-> 0, jail_cards |-> 0,
              doubles_count |-> 0, bankrupt |-> FALSE]
          [] n = "B" ->
             [money |-> 2100, position |-> 31, properties |-> <<>>,
              in_jail |-> FALSE, jail_turns |-> 0, jail_cards |-> 0,
              doubles_count |-> 0, bankrupt |-> FALSE]],
   current_player_idx |-> 1,
   phase |-> WAITING_FOR_ROLL,
   tiles |-> [pos \in Positions |-> Property],
   last_dice |-> <<1, 2>>,
   turn_number |-> 99,
   messages |-> 50,
   chance_deck |-> {1, 2, 3, 4, 5, 6, 7, 8, 9, 10},
   community_deck |-> {1, 2, 3, 4, 5, 6, 7, 8, 9, 10},
   result |-> NoResult]

(***************************************************************************)
(* The embedding service, backend/mcp_server.py.  Its four mutating        *)
(* functions are written like the engine operations: as operators from a   *)
(* record of the server state to the set of records the call can leave,    *)
(* the field reply telling what the call returned.                         *)
(***************************************************************************)
max_actions_per_turn == 20
max_turns == 100

\* bound of the exploration of the service: the number of perform_action
\* requests that are passed on to the engine, counted from the initial state
MaxEngineCalls == 2

\* the number of requests the stalling player of the state Stalled has made
StalledActions == 19

\* the names callers register and act under
Names == {"A", "B"}

\* state.game_id: None, or the id save_game_state gave to the game
NoGameId == "None"
GameId == "game"

\* state.game_engine = None
NoEngine ==
  [player_order |-> <<>>, players |-> <<>>, current_player_idx |-> 0,
   phase |-> "None", tiles |-> <<>>, last_dice |-> <<0, 0>>, turn_number |-> 0,
   messages |-> 0, chance_deck |-> {}, community_deck |-> {},
   result |-> NoResult]

\* what a service call returned: op is the function called, status is
\* "error" for an "Error: ..." string or a dict with the key "error", error
\* names which one, warning is the key the forced end of a turn adds
NoReply == [op |-> "", status |-> "none", error |-> "", warning |-> FALSE]

\* ServerState as one record
SV ==
  [registered_players |-> registered_players, game_engine |-> G,
   is_game_started |-> is_game_started, game_id |-> game_id,
   actions_this_turn |-> actions_this_turn, reply |-> reply]

\* a service call that returns an error and assigns no field
refuse(s, op, why) ==
  [s EXCEPT !.reply = [op |-> op, status |-> "error", error |-> why,
                       warning |-> FALSE]]

\* a service call that returns success
accept(s, op) ==
  [s EXCEPT !.reply = [op |-> op, status |-> "ok", error |-> "",
                       warning |-> FALSE]]

\* a registration that does not look the name up in the list
register_again(s, player_name) ==
  IF s.is_game_started THEN {refuse(s, "register_player", "started")}
  ELSE {accept([s EXCEPT !.registered_players = Append(@, player_name)],
               "register_player")}

\* register_player_for_api
register_player_for_api(s, player_name) ==
  IF s.is_game_started THEN {refuse(s, "register_player", "started")}
  ELSE IF InSeq(player_name, s.registered_players)
    THEN {refuse(s, "register_player", "duplicate")}
  ELSE {accept([s EXCEPT !.registered_players = Append(@, player_name)],
               "register_player")}

\* _save_game_state: the snapshot goes to the persistence layer, the id it
\* is filed under stays in the server state
save_game_state(s) ==
  IF s.is_game_started /\ s.game_engine # NoEngine
    THEN [s EXCEPT !.game_id = GameId]
    ELSE s

\* start_game_for_api
start_game_for_api(s) ==
  IF s.is_game_started THEN {refuse(s, "start_game", "started")}
  ELSE IF Len(s.registered_players) < 2
    THEN {refuse(s, "start_game", "too_few")}
  ELSE {accept(save_game_state(
                 [s EXCEPT !.game_engine = initialize(s.registered_players),
                           !.is_game_started = TRUE,
                           !.actions_this_turn = 0]),
               "start_game")}

\* the action strings callers send: the ten names of the action map, two
\* spellings _clean_action_name repairs, and a name the map does not hold
ActionStrings ==
  {"roll_dice_and_move", "buy_property", "decline_purchase", "pay_jail_bail",
   "use_jail_card", "roll_for_doubles", "build_house", "mortgage",
   "unmortgage", "end_turn", "end turn",
   "build_house (on positions: [1, 3])", "pass"}

\* _clean_action_name: the text before the first "(" stripped, spaces
\* replaced by underscores
clean_action_name(action) ==
  CASE action = "end turn" -> "end_turn"
    [] action = "build_house (on positions: [1, 3])" -> "build_house"
    [] OTHER -> action

\* _execute_runner_action
execute_runner_action(game, action, property_position) ==
  CASE action = "roll_dice_and_move" -> roll_and_move(game)
    [] action = "buy_property" -> buy_current_property(game)
    [] action = "decline_purchase" -> decline_purchase(game)
    [] action = "pay_jail_bail" -> pay_bail(game)
    [] action = "use_jail_card" -> use_jail_card(game)
    [] action = "roll_for_doubles" -> roll_for_doubles(game)
    [] action = "build_house" -> build_house(game, property_position)
    [] action = "mortgage" -> mortgage_property(game, property_position)
    [] action = "unmortgage" -> unmortgage_property(game, property_position)
    [] action = "end_turn" -> end_turn(game)
    [] OTHER -> {error(game)}

\* steps 5 and after of perform_action_for_api: the engine has returned h
\* to the action clean_action; the counter is updated, the turn is ended by
\* force when the counter has passed the limit (what that end_turn returns
\* is dropped, the engine keeps the result of the action), the snapshot is
\* saved and the result of the action is returned
count_action(s, h, clean_action) ==
  LET counted == IF clean_action = "end_turn" \/ h.phase = GAME_OVER
                   THEN 0
                   ELSE s.actions_this_turn + 1
      forced == counted > max_actions_per_turn
      answer == [op |-> "perform_action",
                 status |-> IF h.result.status = "error" THEN "error" ELSE "ok",
                 error |-> IF h.result.status = "error" THEN "engine" ELSE "",
                 warning |-> forced]
  IN IF forced
       THEN {save_game_state(
               [s EXCEPT !.game_engine = [e EXCEPT !.result = h.result],
                         !.actions_this_turn = 0,
                         !.reply = answer]) : e \in end_turn(log(h))}
       ELSE {save_game_state(
               [s EXCEPT !.game_engine = h,
                         !.actions_this_turn = counted,
                         !.reply = answer])}

\* perform_action_for_api without the identity check
perform_action_unchecked(s, player_name, action, property_position) ==
  IF ~s.is_game_started THEN {refuse(s, "perform_action", "not_started")}
  ELSE LET game == s.game_engine
       IN IF game.phase = GAME_OVER \/ game.turn_number >= max_turns
            THEN {refuse(s, "perform_action", "game_over")}
          ELSE LET clean_action == clean_action_name(action)
               IN UNION {count_action(s, h, clean_action) :
                           h \in execute_runner_action(game, clean_action,
                                                       property_position)}

\* verdict without the comparison of the turn counter with max_turns
verdict_any_turn(s, player_name) ==
  IF ~s.is_game_started THEN "not_started"
  ELSE IF current_player(s.game_engine) # player_name THEN "not_your_turn"
  ELSE IF s.game_engine.phase = GAME_OVER THEN "game_over"
  ELSE ""

\* the checks perform_action_for_api makes before it reads the action: the
\* error it returns, or "" when the request passes
verdict(s, player_name) ==
  IF ~s.is_game_started THEN "not_started"
  ELSE IF current_player(s.game_engine) # player_name THEN "not_your_turn"
  ELSE IF \/ s.game_engine.phase = GAME_OVER
          \/ s.game_engine.turn_number >= max_turns
    THEN "game_over"
  ELSE ""

\* perform_action_for_api
perform_action_for_api(s, player_name, action, property_position) ==
  IF verdict(s, player_name) # ""
    THEN {refuse(s, "perform_action", verdict(s, player_name))}
  ELSE LET clean_action == clean_action_name(action)
       IN UNION {count_action(s, h, clean_action) :
                   h \in execute_runner_action(s.game_engine, clean_action,
                                               property_position)}

\* reset_game_for_api
reset_game_for_api(s) ==
  {accept([s EXCEPT !.registered_players = <<>>,
                    !.game_engine = NoEngine,
                    !.is_game_started = FALSE,
                    !.game_id = NoGameId,
                    !.actions_this_turn = 0],
          "reset_game")}

\* the threads that call the service, and the value of lock when no thread
\* holds it
Threads == {1, 2}
NoThread == 0

\* request[t] is the call thread t is in: the function called and its
\* arguments, the turn counter when the call was made, and how far the call
\* is: "waiting" for the lock or "locked", holding it.  A perform_action
\* call makes its checks and the engine reads the phase as soon as the lock
\* is held: verdict and phase are what was found.
NoRequest ==
  [op |-> "", player_name |-> "", action |-> "", turn |-> 0, stage |-> "",
   verdict |-> "", phase |-> ""]

\* served[t] is the last end_turn request of thread t that returned: the
\* name it was made under, the turn counter when it was made (turn) and
\* when it was carried out (at), and whether it changed the turn counter
NoneServed ==
  [done |-> FALSE, player_name |-> "", turn |-> 0, at |-> 0,
   advanced |-> FALSE]

\* GameOrchestrator(): the dataclass defaults, with no API key in the
\* environment
GameOrchestrator ==
  [selected_agents |-> <<>>, ai_client |-> FALSE, is_running |-> FALSE]

\* the service with no call under way: the lock is free and no thread is in
\* a call
Quiet ==
  /\ lock = NoThread
  /\ request = [t \in Threads |-> NoRequest]
  /\ served = [t \in Threads |-> NoneServed]

RecordedStates ==
  {BeforeBankruptcy, OnBoardwalk, LastJailTurn, ForcedBail, OneUtility,
   BothUtilities}

\* the states the exploration starts from: the games just initialized and
\* the recorded states
InitStates == {initialize(names) : names \in PlayerLists} \cup RecordedStates

Init ==
  /\ \E g \in InitStates :
       /\ player_order = g.player_order
       /\ players = g.players
       /\ current_player_idx = g.current_player_idx
       /\ phase = g.phase
       /\ tiles = g.tiles
       /\ last_dice = g.last_dice
       /\ turn_number = g.turn_number
       /\ messages = g.messages
       /\ chance_deck = g.chance_deck
       /\ community_deck = g.community_deck
       /\ result = g.result
  /\ streak = 0
  /\ calls = 0
  /\ registered_players = player_order
  /\ is_game_started = TRUE
  /\ game_id = GameId
  /\ actions_this_turn = 0
  /\ reply = NoReply
  /\ Quiet
  /\ orchestrator = GameOrchestrator

(***************************************************************************)
(* streak is the history the three-doubles rule speaks of: the number of   *)
(* double rolls of roll_and_move the current player has made in a row in   *)
(* this turn, with no release from jail since the first of them.           *)
(***************************************************************************)
next_streak(h) ==
  LET p == current_player(G)
  IN IF h.result.status = "error" THEN streak
     ELSE IF h.result.op = "roll_and_move"
       THEN IF h.last_dice[1] = h.last_dice[2] THEN streak + 1 ELSE 0
     ELSE IF h.result.op = "end_turn" THEN 0
     ELSE IF players[p].in_jail /\ ~h.players[p].in_jail THEN 0
     ELSE streak

\* the engine becomes h, the record a call returned together with the state
\* it left behind
Return(h) ==
  /\ player_order' = h.player_order
  /\ players' = h.players
  /\ current_player_idx' = h.current_player_idx
  /\ phase' = h.phase
  /\ tiles' = h.tiles
  /\ last_dice' = h.last_dice
  /\ turn_number' = h.turn_number
  /\ messages' = h.messages
  /\ chance_deck' = h.chance_deck
  /\ community_deck' = h.community_deck
  /\ result' = h.result
  /\ streak' = next_streak(h)
  /\ calls' = IF h.result.status = "error" THEN calls ELSE calls + 1
  /\ UNCHANGED <<service_vars, orchestrator>>

\* one call of an engine operation whose possible outcomes are `outcomes`
Call(outcomes) == calls < MaxCalls /\ \E h \in outcomes : Return(h)

RollAndMove == Call(roll_and_move(G))

BuyCurrentProperty == Call(buy_current_property(G))

DeclinePurchase == Call(decline_purchase(G))

PayBail == Call(pay_bail(G))

UseJailCard == Call(use_jail_card(G))

RollForDoubles == Call(roll_for_doubles(G))

BuildHouse == Call(UNION {build_house(G, position) : position \in Positions})

MortgageProperty ==
  Call(UNION {mortgage_property(G, position) : position \in Positions})

UnmortgageProperty ==
  Call(UNION {unmortgage_property(G, position) : position \in Positions})

EndTurn == Call(end_turn(G))

Next ==
  \/ RollAndMove
  \/ BuyCurrentProperty
  \/ DeclinePurchase
  \/ PayBail
  \/ UseJailCard
  \/ RollForDoubles
  \/ BuildHouse
  \/ MortgageProperty
  \/ UnmortgageProperty
  \/ EndTurn

Spec == Init /\ [][Next]_vars

(***************************************************************************)
(* The service as a state machine: one action per function.  A function    *)
(* holds state.lock from its first line to its return, so a call is one    *)
(* step here; ConcurrentSpec below follows the lock itself.                *)
(***************************************************************************)

\* the lobby of a server just constructed
Lobby ==
  [registered_players |-> <<>>, game_engine |-> NoEngine,
   is_game_started |-> FALSE, game_id |-> NoGameId, actions_this_turn |-> 0,
   reply |-> NoReply]

\* the server at the start of a turn of a game with the engine state g
Running(g) ==
  [registered_players |-> g.player_order, game_engine |-> g,
   is_game_started |-> TRUE, game_id |-> GameId, actions_this_turn |-> 0,
   reply |-> NoReply]

RECURSIVE stall(_, _)
\* the server after n requests of the current player for an action the
\* action map does not hold, made in the server state s
stall(s, n) ==
  IF n = 0 THEN s
  ELSE stall(CHOOSE x \in perform_action_for_api(
                            s, current_player(s.game_engine), "pass", 0) : TRUE,
             n - 1)

\* B, to roll in the state BothUtilities, has sent 19 such requests
Stalled == stall(Running(BothUtilities), StalledActions)

\* the states the exploration of the service starts from: the lobby, three
\* recorded states of games of A and B at the start of a turn, and Stalled
ServiceStates ==
  {Lobby, Running(BothUtilities), Running(InJail), Running(LastTurn), Stalled}

\* the server state is s
Serving(s) ==
  /\ registered_players = s.registered_players
  /\ is_game_started = s.is_game_started
  /\ game_id = s.game_id
  /\ actions_this_turn = s.actions_this_turn
  /\ reply = s.reply
  /\ player_order = s.game_engine.player_order
  /\ players = s.game_engine.players
  /\ current_player_idx = s.game_engine.current_player_idx
  /\ phase = s.game_engine.phase
  /\ tiles = s.game_engine.tiles
  /\ last_dice = s.game_engine.last_dice
  /\ turn_number = s.game_engine.turn_number
  /\ messages = s.game_engine.messages
  /\ chance_deck = s.game_engine.chance_deck
  /\ community_deck = s.game_engine.community_deck
  /\ result = s.game_engine.result

ServiceInit ==
  /\ \E s \in ServiceStates : Serving(s)
  /\ Quiet
  /\ orchestrator = GameOrchestrator
  /\ streak = 0
  /\ calls = 0

\* the server state becomes s, the record a call of the service left
Respond(s) ==
  /\ registered_players' = s.registered_players
  /\ is_game_started' = s.is_game_started
  /\ game_id' = s.game_id
  /\ actions_this_turn' = s.actions_this_turn
  /\ reply' = s.reply
  /\ player_order' = s.game_engine.player_order
  /\ players' = s.game_engine.players
  /\ current_player_idx' = s.game_engine.current_player_idx
  /\ phase' = s.game_engine.phase
  /\ tiles' = s.game_engine.tiles
  /\ last_dice' = s.game_engine.last_dice
  /\ turn_number' = s.game_engine.turn_number
  /\ messages' = s.game_engine.messages
  /\ chance_deck' = s.game_engine.chance_deck
  /\ community_deck' = s.game_engine.community_deck
  /\ result' = s.game_engine.result
  /\ UNCHANGED streak

\* one call of a function of the service whose possible outcomes are
\* `outcomes`
Serve(outcomes) ==
  /\ \E s \in outcomes : Respond(s)
  /\ UNCHANGED <<calls, lock, request, served, orchestrator>>

\* the names that ask to be registered: the callers and a third player
Registrants == Names \cup {"C"}

RegisterPlayer ==
  Serve(UNION {register_player_for_api(SV, player_name) :
                 player_name \in Registrants})

StartGame == Serve(start_game_for_api(SV))

\* the positions callers of the service name: GO, which is what
\* params.get("property_position", 0) yields when none is named, and two
\* holdings of B in BothUtilities, one with a house and one without
PropertyPositions == {0, 1, 19}

\* the requests of perform_action: an action string with the position named,
\* which only three actions read
Requests ==
  LET positional == {"build_house", "mortgage", "unmortgage",
                     "build_house (on positions: [1, 3])"}
  IN {<<action, 0>> : action \in ActionStrings \ positional}
       \cup (positional \X PropertyPositions)

\* a request the service refuses itself is always open; one it passes on to
\* the engine is open while the bound allows
PerformAction ==
  \E player_name \in Names, r \in Requests :
    \E s \in perform_action_for_api(SV, player_name, r[1], r[2]) :
      /\ s.reply.error \in {"", "engine"} => calls < MaxEngineCalls
      /\ Respond(s)
      /\ calls' = IF s.reply.error \in {"", "engine"} THEN calls + 1 ELSE calls
      /\ UNCHANGED <<lock, request, served, orchestrator>>

ResetGame == Serve(reset_game_for_api(SV))

ServiceNext ==
  \/ RegisterPlayer
  \/ StartGame
  \/ PerformAction
  \/ ResetGame

ServiceSpec == ServiceInit /\ [][ServiceNext]_vars

(***************************************************************************)
(* The service with its callers and its lock.  A call is three steps:      *)
(* thread t calls a function (Submit), takes state.lock when it is free    *)
(* (Enter: `with state.lock:`), and runs the function to its return, which *)
(* gives the lock back (Finish).  What a perform_action call reads before  *)
(* it changes anything, namely its three checks and the phase the engine   *)
(* method tests, is read in Enter; the assignments are made in Finish on   *)
(* the state as it then is.                                                *)
(***************************************************************************)

\* bound of the exploration of the callers: the number of calls made
MaxRequests == 3

\* the actions callers of ConcurrentSpec ask for
RacingActions == {"roll_dice_and_move", "end_turn"}

\* the calls a thread can make
Calls ==
  {[op |-> "register_player", player_name |-> n, action |-> ""] : n \in Names}
    \cup {[op |-> "start_game", player_name |-> "", action |-> ""],
          [op |-> "reset_game", player_name |-> "", action |-> ""]}
    \cup {[op |-> "perform_action", player_name |-> n, action |-> a] :
            n \in Names, a \in RacingActions}

\* a lock any thread can take although another thread holds it
acquire_held(t) == lock' = t

\* state.lock.acquire() by thread t: it returns when no thread holds the lock
acquire(t) == lock = NoThread /\ lock' = t

\* the function of the call r applied to the server in one piece
whole(r) ==
  CASE r.op = "register_player" -> register_player_for_api(SV, r.player_name)
    [] r.op = "start_game" -> start_game_for_api(SV)
    [] r.op = "reset_game" -> reset_game_for_api(SV)
    [] r.op = "perform_action" ->
         perform_action_for_api(SV, r.player_name, r.action, 0)

\* the rest of the call r from where Enter left it: a perform_action call
\* that failed a check returns that error; one that passed them runs the
\* engine method past its test of the phase, for the player who is then
\* the current player
rest(r) ==
  IF r.op # "perform_action" THEN whole(r)
  ELSE IF r.verdict # "" THEN {refuse(SV, "perform_action", r.verdict)}
  ELSE IF ~is_game_started THEN {refuse(SV, "perform_action", "not_started")}
  ELSE perform_action_for_api([SV EXCEPT !.game_engine.phase = r.phase],
                              current_player(G), r.action, 0)

Submit(t) ==
  /\ calls < MaxRequests
  /\ request[t] = NoRequest
  /\ \E c \in Calls :
       request' = [request EXCEPT ![t] =
                     [op |-> c.op, player_name |-> c.player_name,
                      action |-> c.action, turn |-> turn_number,
                      stage |-> "waiting", verdict |-> "", phase |-> ""]]
  /\ calls' = calls + 1
  /\ UNCHANGED <<engine_vars, streak, registered_players, is_game_started,
                 game_id, actions_this_turn, reply, lock, served,
                 orchestrator>>

Enter(t) ==
  /\ request[t].stage = "waiting"
  /\ acquire(t)
  /\ request' = [request EXCEPT
                   ![t].stage = "locked",
                   ![t].verdict = IF request[t].op = "perform_action"
                                    THEN verdict(SV, request[t].player_name)
                                    ELSE "",
                   ![t].phase = IF request[t].op = "perform_action"
                                  THEN phase
                                  ELSE ""]
  /\ UNCHANGED <<engine_vars, streak, calls, registered_players,
                 is_game_started, game_id, actions_this_turn, reply, served,
                 orchestrator>>

Finish(t) ==
  /\ request[t].stage = "locked"
  /\ \E s \in rest(request[t]) :
       /\ Respond(s)
       /\ served' =
            IF request[t].op = "perform_action" /\ request[t].action = "end_turn"
              THEN [served EXCEPT ![t] =
                      [done |-> TRUE, player_name |-> request[t].player_name,
                       turn |-> request[t].turn, at |-> turn_number,
                       advanced |-> s.game_engine.turn_number # turn_number]]
              ELSE served
  /\ request' = [request EXCEPT ![t] = NoRequest]
  /\ lock' = NoThread
  /\ UNCHANGED <<calls, orchestrator>>

ConcurrentNext == \E t \in Threads : Submit(t) \/ Enter(t) \/ Finish(t)

\* the callers start in the lobby or at the start of a turn of a game
ConcurrentInit ==
  /\ \E s \in {Lobby, Running(BothUtilities)} : Serving(s)
  /\ Quiet
  /\ orchestrator = GameOrchestrator
  /\ streak = 0
  /\ calls = 0

ConcurrentSpec == ConcurrentInit /\ [][ConcurrentNext]_vars

(***************************************************************************)
(* Properties.                                                             *)
(***************************************************************************)

\* the step is a call of the method op that returned no error
Returned(op) == result'.status # "error" /\ result'.op = op

\* the step is a roll_and_move that moved the current player by the dice
\* (not the third double in a row, which sends to jail without moving)
MovedByDice ==
  /\ Returned("roll_and_move")
  /\ ~(/\ last_dice'[1] = last_dice'[2]
       /\ players[current_player(G)].doubles_count + 1 >= MaxDoubles)

\* the tile the dice of the step lead the current player to
DiceTile ==
  (players[current_player(G)].position + last_dice'[1] + last_dice'[2])
    % BoardSize

\* C1: whenever a roll_and_move call puts the current player in jail (Go To
\* Jail tile, send-to-jail card or third double in a row), the phase after
\* the call is TURN_COMPLETE, also when the dice were a double.
C1_JailEntryEndsTheTurn ==
  [][LET p == current_player(G)
     IN (Returned("roll_and_move") /\ ~players[p].in_jail /\ players'[p].in_jail)
          => phase' = TURN_COMPLETE]_vars

\* C2: once the phase is GAME_OVER every later engine operation leaves the
\* phase GAME_OVER and changes no player's cash, jail flag, position or
\* holdings and no tile's owner, houses or mortgage flag.
C2_GameOverIsTerminal ==
  [][phase = GAME_OVER =>
       /\ phase' = GAME_OVER
       /\ \A n \in DOMAIN players :
            /\ players'[n].money = players[n].money
            /\ players'[n].in_jail = players[n].in_jail
            /\ players'[n].position = players[n].position
            /\ players'[n].properties = players[n].properties
       /\ tiles' = tiles]_vars

\* C3: a draw removes exactly one card from the engine's deck, and a draw
\* that finds the deck exhausted refills it with the 10 cards first: after
\* a landing by the dice on a Chance tile the Chance deck holds one card
\* less than before, or 9 cards if it was empty.
C3_DrawWithoutReplacement ==
  [][(MovedByDice /\ Tile(DiceTile).type = CHANCE) =>
       Cardinality(chance_deck') =
         IF chance_deck = {} THEN Len(CHANCE_CARDS) - 1
         ELSE Cardinality(chance_deck) - 1]_vars

\* C4: whenever an engine operation returns an error, the phase, the current
\* player, the turn counter, the last dice, every player's fields, every
\* tile's fields, both decks and the event log are as before the call.
C4_AtomicFailure ==
  [][result'.status = "error" =>
       UNCHANGED <<player_order, players, current_player_idx, phase, tiles,
                   last_dice, turn_number, messages, chance_deck,
                   community_deck>>]_vars

\* an operation has just returned an error while the current player holds a
\* mortgaged tile and less cash than it costs to unmortgage it
C4_Witness ==
  /\ result.status = "error"
  /\ \E pos \in Positions :
       /\ tiles[pos].owner = current_player(G)
       /\ tiles[pos].is_mortgaged
       /\ players[current_player(G)].money < unmortgage_cost(pos)

\* C5: roll_and_move returns an error in every phase but WAITING_FOR_ROLL,
\* buy_current_property and decline_purchase in every phase but
\* WAITING_FOR_BUY_DECISION, end_turn in every phase but TURN_COMPLETE.
C5_PhaseGating ==
  /\ phase # WAITING_FOR_ROLL =>
       \A h \in roll_and_move(G) : h.result.status = "error"
  /\ phase # WAITING_FOR_BUY_DECISION =>
       \A h \in buy_current_property(G) \cup decline_purchase(G) :
         h.result.status = "error"
  /\ phase # TURN_COMPLETE =>
       \A h \in end_turn(G) : h.result.status = "error"

\* an operation has just returned an error to a player in phase IN_JAIL
C5_Witness == phase = IN_JAIL /\ result.status = "error"

\* C6: the third double roll of roll_and_move in a row by the same player,
\* with no release from jail in between, puts the player in jail on
\* position 10 whatever tile the dice lead to.
C6_ThirdDoubleGoesToJail ==
  (result.op = "roll_and_move" /\ streak >= MaxDoubles) =>
    /\ players[current_player(G)].in_jail
    /\ players[current_player(G)].position = JailPosition

\* C7: the movement of roll_and_move by the dice credits the player 200 if
\* old position + dice total >= 40 and nothing otherwise, for every old
\* position and every dice total.
C7_PassingGoPays200 ==
  phase = WAITING_FOR_ROLL =>
    \A d1 \in Dice, d2 \in Dice :
      LET p == current_player(G)
          old == players[p].position
          total == d1 + d2
          third == d1 = d2 /\ players[p].doubles_count + 1 >= MaxDoubles
      IN ~third =>
           advance(G, p, total).players[p].money - players[p].money =
             IF old + total >= BoardSize THEN GoBonus ELSE 0

\* C8: in phase WAITING_FOR_BUY_DECISION buy_current_property with cash >=
\* price deducts the price, makes the player the owner, appends the
\* position to the holdings and sets TURN_COMPLETE; with cash < price it
\* returns an error and leaves the whole state, the phase included, as is.
C8_BuyCurrentProperty ==
  phase = WAITING_FOR_BUY_DECISION =>
    LET p == current_player(G)
        pos == players[p].position
        price == Tile(pos).price
    IN \A h \in buy_current_property(G) :
         IF players[p].money >= price
           THEN /\ h.result.status = "ok"
                /\ h.players[p].money = players[p].money - price
                /\ h.tiles[pos].owner = p
                /\ h.players[p].properties = Append(players[p].properties, pos)
                /\ h.phase = TURN_COMPLETE
           ELSE /\ h.result.status = "error"
                /\ [h EXCEPT !.result = result] = G

\* buy_current_property has just made the current player the owner of the
\* tile the player stands on
C8_Witness ==
  /\ result.op = "buy_current_property"
  /\ phase = TURN_COMPLETE
  /\ tiles[current_tile(G)].owner = current_player(G)

\* C9: build_house(position) is accepted only if the current player owns
\* every tile of the tile's color group, the tile is not mortgaged, has
\* fewer than 5 houses and no more houses than any tile of the group, and
\* the cash is at least the house cost; an accepted build deducts the house
\* cost and adds one house to the tile.
C9_BuildHouse ==
  \A position \in Positions :
    \A h \in build_house(G, position) :
      h.result.status # "error" =>
        LET p == current_player(G)
            group == COLOR_GROUPS(Tile(position).color)
            members == {group[i] : i \in 1 .. Len(group)}
        IN /\ position \in members
           /\ \A t \in members : tiles[t].owner = p
           /\ ~tiles[position].is_mortgaged
           /\ tiles[position].houses < MaxHouses
           /\ \A t \in members : tiles[position].houses <= tiles[t].houses
           /\ players[p].money >= Tile(position).house_cost
           /\ h.players[p].money =
                players[p].money - Tile(position).house_cost
           /\ h.tiles[position].houses = tiles[position].houses + 1

\* build_house has just built the fifth house, the hotel, on a tile
C9_Witness ==
  /\ result.op = "build_house"
  /\ \E pos \in Positions : tiles[pos].houses = MaxHouses

\* C10: end_turn in TURN_COMPLETE with the current player's cash negative
\* marks that player bankrupt; if at most one player is then not bankrupt
\* the phase becomes GAME_OVER and the result names that player as winner;
\* the winner reported is never none.
C10_BankruptcyEndsTheGame ==
  /\ (phase = TURN_COMPLETE /\ players[current_player(G)].money < 0) =>
       \A h \in end_turn(G) :
         LET remaining == {n \in DOMAIN players : ~h.players[n].bankrupt}
         IN /\ h.players[current_player(G)].bankrupt
            /\ Cardinality(remaining) <= 1 =>
                 /\ h.phase = GAME_OVER
                 /\ h.result.status = "game_over"
                 /\ h.result.winner \in remaining
  /\ result.status = "game_over" =>
       /\ phase = GAME_OVER
       /\ result.winner \in {n \in DOMAIN players : ~players[n].bankrupt}

\* end_turn has just made the current player bankrupt and reported the game
\* over
C10_Witness ==
  /\ result.status = "game_over"
  /\ players[current_player(G)].bankrupt
  /\ players[current_player(G)].money < 0

\* C11: a player's bankrupt flag, once set, is never cleared, and every
\* end_turn that succeeds without ending the game makes the first player
\* that is not bankrupt after the previous current player, in cyclic
\* registration order, the current player: a bankrupt player is never
\* selected to take a turn.
C11_BankruptPlayersAreSkipped ==
  [][/\ \A n \in DOMAIN players : players[n].bankrupt => players'[n].bankrupt
     /\ (Returned("end_turn") /\ result'.status = "ok") =>
          LET N == Len(player_order)
              following(k) == player_order[((current_player_idx + k) % N) + 1]
              solvent == {k \in 1 .. N : ~players'[following(k)].bankrupt}
          IN /\ \E k \in solvent :
                  /\ \A j \in solvent : k <= j
                  /\ current_player_idx' = (current_player_idx + k) % N
             /\ ~players'[player_order'[current_player_idx' + 1]].bankrupt]_vars

\* end_turn has just passed over a bankrupt player: the player before the
\* new current player in registration order is bankrupt
C11_Witness ==
  /\ result.op = "end_turn"
  /\ result.status = "ok"
  /\ LET N == Len(player_order)
     IN players[player_order[((current_player_idx + N - 1) % N) + 1]].bankrupt

\* C12: roll_for_doubles succeeds only for a jailed player.  A double
\* releases the player at no charge with phase WAITING_FOR_ROLL; a
\* non-double adds one to the attempt counter and leaves the player jailed
\* with phase TURN_COMPLETE, but the third failed attempt deducts exactly
\* 50 (the cash may go negative), releases the player, resets the counter
\* and sets WAITING_FOR_ROLL.  The counter of a player who stays in jail is
\* changed by nothing else, and it is in 0..2 between operations, so no
\* player fails more than 3 attempts in one jail stay.
C12_RollForDoubles ==
  [][/\ Returned("roll_for_doubles") =>
          LET p == current_player(G)
              before == players[p]
              after == players'[p]
          IN /\ before.in_jail
             /\ IF last_dice'[1] = last_dice'[2]
                  THEN /\ ~after.in_jail
                       /\ after.jail_turns = 0
                       /\ after.money = before.money
                       /\ phase' = WAITING_FOR_ROLL
                ELSE IF before.jail_turns + 1 < MaxJailTurns
                  THEN /\ after.in_jail
                       /\ after.jail_turns = before.jail_turns + 1
                       /\ after.money = before.money
                       /\ phase' = TURN_COMPLETE
                ELSE /\ ~after.in_jail
                     /\ after.jail_turns = 0
                     /\ after.money = before.money - Bail
                     /\ phase' = WAITING_FOR_ROLL
     /\ ~Returned("roll_for_doubles") =>
          \A n \in DOMAIN players :
            (players[n].in_jail /\ players'[n].in_jail) =>
              players'[n].jail_turns = players[n].jail_turns
     /\ \A n \in DOMAIN players :
          /\ players[n].jail_turns \in 0 .. MaxJailTurns - 1
          /\ players'[n].jail_turns \in 0 .. MaxJailTurns - 1]_vars

\* the third failed roll for doubles has just released the current player
\* and left the cash negative
C12_Witness ==
  /\ result.op = "roll_for_doubles"
  /\ last_dice[1] # last_dice[2]
  /\ ~players[current_player(G)].in_jail
  /\ players[current_player(G)].money < 0
  /\ phase = WAITING_FOR_ROLL

\* C13: pay_bail succeeds only if the current player is in jail with cash
\* >= 50, and then deducts exactly 50; use_jail_card succeeds only if the
\* current player is in jail holding at least one jail card, and then takes
\* exactly one card; each success clears the jail flag and the attempt
\* counter and sets WAITING_FOR_ROLL; no jail-card count is ever negative.
C13_BailAndJailCard ==
  LET p == current_player(G)
      released(h) ==
        /\ ~h.players[p].in_jail
        /\ h.players[p].jail_turns = 0
        /\ h.phase = WAITING_FOR_ROLL
  IN /\ \A h \in pay_bail(G) :
          h.result.status # "error" =>
            /\ players[p].in_jail
            /\ players[p].money >= Bail
            /\ h.players[p].money = players[p].money - Bail
            /\ h.players[p].jail_cards = players[p].jail_cards
            /\ released(h)
     /\ \A h \in use_jail_card(G) :
          h.result.status # "error" =>
            /\ players[p].in_jail
            /\ players[p].jail_cards >= 1
            /\ h.players[p].jail_cards = players[p].jail_cards - 1
            /\ h.players[p].money = players[p].money
            /\ released(h)
     /\ \A n \in DOMAIN players : players[n].jail_cards >= 0

\* use_jail_card has just taken the last jail card of the current player,
\* who has less than the bail in hand
C13_Witness ==
  /\ result.op = "use_jail_card"
  /\ players[current_player(G)].jail_cards = 0
  /\ players[current_player(G)].money < Bail
  /\ ~players[current_player(G)].in_jail
  /\ phase = WAITING_FOR_ROLL

\* C14: a mortgaged tile yields zero rent.  When the dice of roll_and_move
\* lead the current player to a mortgaged tile owned by another player, the
\* landing changes no player's cash (the cash is what the movement left);
\* and get_rent of a mortgaged tile is 0 for every dice total and every
\* number of railroads and utilities held, whatever its type and houses.
C14_MortgagedTileYieldsNoRent ==
  /\ phase = WAITING_FOR_ROLL =>
       \A d1 \in Dice, d2 \in Dice :
         LET p == current_player(G)
             total == d1 + d2
             pos == (players[p].position + total) % BoardSize
             third == d1 = d2 /\ players[p].doubles_count + 1 >= MaxDoubles
         IN (/\ ~third
             /\ tiles[pos].is_mortgaged
             /\ tiles[pos].owner \notin {NoOwner, p}) =>
              \A h \in roll_dice(G, d1, d2) :
                \A n \in DOMAIN players :
                  h.players[n].money = advance(G, p, total).players[n].money
  /\ \A pos \in Positions :
       tiles[pos].is_mortgaged =>
         /\ \A dice_roll \in 0 .. 2 * DieFaces :
              \A railroads_owned \in 0 .. 4, utilities_owned \in 0 .. 2 :
                get_rent(G, pos, dice_roll, railroads_owned, utilities_owned)
                  = 0
         /\ tiles[pos].owner # NoOwner =>
              \A dice \in 2 .. 2 * DieFaces : calculate_rent(G, pos, dice) = 0

\* roll_and_move has just put the current player on a mortgaged tile owned
\* by another player
C14_Witness ==
  /\ result.op = "roll_and_move"
  /\ tiles[current_tile(G)].is_mortgaged
  /\ tiles[current_tile(G)].owner \notin {NoOwner, current_player(G)}

\* the number of tiles of type t that owner holds, by the tiles' owner field
Held(owner, t) ==
  Cardinality({q \in Positions : Tile(q).type = t /\ tiles[q].owner = owner})

\* the rent stated for the unmortgaged tile at pos and a dice total
StatedRent(pos, total) ==
  LET owner == tiles[pos].owner
  IN CASE Tile(pos).type = PROPERTY -> Tile(pos).rent[tiles[pos].houses + 1]
       [] Tile(pos).type = RAILROAD ->
            (CASE Held(owner, RAILROAD) = 1 -> 25
               [] Held(owner, RAILROAD) = 2 -> 50
               [] Held(owner, RAILROAD) = 3 -> 100
               [] Held(owner, RAILROAD) = 4 -> 200)
       [] Tile(pos).type = UTILITY ->
            total * (IF Held(owner, UTILITY) = 2 THEN 10 ELSE 4)

\* C15: when the dice of roll_and_move lead the current player to an
\* unmortgaged ownable tile owned by another player, the landing takes the
\* rent R from the payer and gives the same R to the owner, no other cash
\* changing, where R is the rent-table entry of the house count for a
\* PROPERTY, 25/50/100/200 for 1/2/3/4 railroads held by the owner for a
\* RAILROAD, and 4 times the dice total (10 times if the owner holds both
\* utilities) for a UTILITY; the landing leaves the phase TURN_COMPLETE
\* (which a double then turns into WAITING_FOR_ROLL with roll_again).
C15_RentIsTransferred ==
  phase = WAITING_FOR_ROLL =>
    \A d1 \in Dice, d2 \in Dice :
      LET p == current_player(G)
          total == d1 + d2
          pos == (players[p].position + total) % BoardSize
          owner == tiles[pos].owner
          third == d1 = d2 /\ players[p].doubles_count + 1 >= MaxDoubles
          moved == advance(G, p, total)
      IN (/\ ~third
          /\ Tile(pos).type \in Ownable
          /\ owner \notin {NoOwner, p}
          /\ ~tiles[pos].is_mortgaged) =>
           \A h \in roll_dice(G, d1, d2) :
             LET R == StatedRent(pos, total)
             IN /\ R > 0
                /\ h.players[p].money = moved.players[p].money - R
                /\ h.players[owner].money = moved.players[owner].money + R
                /\ \A n \in DOMAIN players \ {p, owner} :
                     h.players[n].money = players[n].money
                /\ IF d1 = d2
                     THEN h.phase = WAITING_FOR_ROLL /\ h.result.roll_again
                     ELSE h.phase = TURN_COMPLETE /\ ~h.result.roll_again

\* roll_and_move has just put the current player on an unmortgaged utility
\* of a player who holds both utilities
C15_Witness ==
  /\ result.op = "roll_and_move"
  /\ Tile(current_tile(G)).type = UTILITY
  /\ ~tiles[current_tile(G)].is_mortgaged
  /\ tiles[current_tile(G)].owner \notin {NoOwner, current_player(G)}
  /\ Held(tiles[current_tile(G)].owner, UTILITY) = 2

\* the tile at pos can be mortgaged by the current player: an ownable tile
\* the player owns, with no houses and not mortgaged
Mortgageable(pos) ==
  /\ Tile(pos).type \in Ownable
  /\ tiles[pos].owner = current_player(G)
  /\ tiles[pos].houses = 0
  /\ ~tiles[pos].is_mortgaged

\* mortgage_property(pos) and then unmortgage_property(pos) both succeed from
\* the state G and leave the tile unmortgaged with the same owner and
\* houses and the cash lower by the truncated 10% of the mortgage value
RoundTrip(pos) ==
  LET p == current_player(G)
  IN \A h1 \in mortgage_property(G, pos) :
       /\ h1.result.status = "ok"
       /\ h1.tiles[pos].is_mortgaged
       /\ h1.players[p].money = players[p].money + Tile(pos).mortgage
       /\ \A h2 \in unmortgage_property(h1, pos) :
            /\ h2.result.status = "ok"
            /\ h2.tiles = tiles
            /\ h2.players[p].money =
                 players[p].money - Tile(pos).mortgage \div 10
            /\ h1.players[p].money - h2.players[p].money =
                 Tile(pos).mortgage + Tile(pos).mortgage \div 10

\* C16 as stated: for every ownable tile owned by the current player with
\* zero houses, mortgage_property(pos) immediately followed by
\* unmortgage_property(pos) returns the tile to the unmortgaged state with
\* the same owner and houses, the cash lower than before the mortgage by
\* exactly the truncated 10% of the mortgage value.
C16_MortgageRoundTrip ==
  \A pos \in Positions : Mortgageable(pos) => RoundTrip(pos)

\* C16, amended: the round trip is as stated whenever the cash before the
\* mortgage is at least the truncated 10% of the mortgage value; with less
\* cash the mortgage succeeds, unmortgage_property returns an error and the
\* tile stays mortgaged.
C16_MortgageRoundTripWithCash ==
  \A pos \in Positions :
    Mortgageable(pos) =>
      IF players[current_player(G)].money >= Tile(pos).mortgage \div 10
        THEN RoundTrip(pos)
        ELSE \A h1 \in mortgage_property(G, pos) :
               /\ h1.result.status = "ok"
               /\ \A h2 \in unmortgage_property(h1, pos) :
                    /\ h2.result.status = "error"
                    /\ h2.tiles[pos].is_mortgaged
                    /\ h2.players = h1.players

\* unmortgage_property has just returned success and the state differs from
\* a state the exploration started from by nothing but the cash of the
\* current player, lower by the truncated 10% of the mortgage value of a
\* tile that the player can mortgage: the round trip was made
C16_Witness ==
  /\ result.op = "unmortgage_property"
  /\ \E g \in InitStates, pos \in Positions :
       /\ Mortgageable(pos)
       /\ tiles = g.tiles
       /\ players =
            [g.players EXCEPT ![current_player(G)].money =
                                @ - Tile(pos).mortgage \div 10]

\* C17: when a player who is not in jail rolls a double in roll_and_move,
\* is moved by the dice and is not sent to jail, then the current player
\* stays the same and: if the player ends on an unowned ownable tile the
\* phase is WAITING_FOR_BUY_DECISION and no roll_again is reported;
\* otherwise (tax, rent, own tile, money or jail-card card, GO, just
\* visiting, free parking) the phase is WAITING_FOR_ROLL and roll_again is
\* reported.  After buy_current_property or decline_purchase the phase is
\* TURN_COMPLETE with the same current player and no roll_again.
C17_DoublesRollAgain ==
  [][LET p == current_player(G)
         pos == players'[p].position
     IN /\ (/\ MovedByDice
            /\ last_dice'[1] = last_dice'[2]
            /\ ~players[p].in_jail
            /\ ~players'[p].in_jail) =>
             /\ current_player_idx' = current_player_idx
             /\ IF Tile(pos).type \in Ownable /\ tiles'[pos].owner = NoOwner
                  THEN phase' = WAITING_FOR_BUY_DECISION /\ ~result'.roll_again
                  ELSE phase' = WAITING_FOR_ROLL /\ result'.roll_again
        /\ (\/ Returned("buy_current_property")
            \/ Returned("decline_purchase")) =>
             /\ phase' = TURN_COMPLETE
             /\ ~result'.roll_again
             /\ current_player_idx' = current_player_idx]_vars

\* buy_current_property has just answered the buy decision that a double
\* led to, and no roll is open to the player
C17_Witness ==
  /\ result.op = "buy_current_property"
  /\ last_dice[1] = last_dice[2]
  /\ phase = TURN_COMPLETE
  /\ \A h \in roll_and_move(G) : h.result.status = "error"

\* C18: an end_turn that succeeds without ending the game adds exactly 1 to
\* the turn counter and sets the phase to IN_JAIL if the new current player
\* is in jail and to WAITING_FOR_ROLL otherwise; no other call of an engine
\* operation changes the turn counter or the current player index.
C18_EndTurnAdvancesTheTurn ==
  [][IF Returned("end_turn") /\ result'.status = "ok"
       THEN /\ turn_number' = turn_number + 1
            /\ phase' =
                 IF players'[player_order'[current_player_idx' + 1]].in_jail
                   THEN IN_JAIL
                   ELSE WAITING_FOR_ROLL
       ELSE /\ turn_number' = turn_number
            /\ current_player_idx' = current_player_idx]_vars

\* end_turn has just handed the turn to a player who is in jail
C18_Witness ==
  /\ result.op = "end_turn"
  /\ result.status = "ok"
  /\ players[current_player(G)].in_jail
  /\ phase = IN_JAIL

\* C19: in every state whose phase is not GAME_OVER, build_house(pos)
\* succeeds for the current player if and only if pos is one of the
\* positions of the build_house entry of get_available_actions; in
\* GAME_OVER no build action is listed and no build succeeds.
C19_AvailableBuildsAgree ==
  \A pos \in Positions :
    LET available == get_available_actions(G)
        listed == /\ "build_house" \in available.actions
                  /\ InSeq(pos, available.build_house)
        succeeds == \E h \in build_house(G, pos) : h.result.status # "error"
    IN IF phase # GAME_OVER
         THEN succeeds <=> listed
         ELSE ~listed /\ ~succeeds

\* C20: after construction and initialize the phase is WAITING_FOR_ROLL,
\* the current player is the first listed player, the turn counter is 0,
\* and every tile is unowned with zero houses and not mortgaged: for the
\* record initialize returns for each player list, and in every state of
\* the engine with turn counter 0 before the first call.
C20_AfterSetup ==
  /\ \A names \in PlayerLists :
       LET g == initialize(names)
       IN /\ g.phase = WAITING_FOR_ROLL
          /\ current_player(g) = names[1]
          /\ g.turn_number = 0
          /\ \A pos \in Positions :
               /\ g.tiles[pos].owner = NoOwner
               /\ g.tiles[pos].houses = 0
               /\ ~g.tiles[pos].is_mortgaged
  /\ (calls = 0 /\ turn_number = 0) =>
       /\ phase = WAITING_FOR_ROLL
       /\ current_player(G) = player_order[1]
       /\ \A pos \in Positions :
            /\ tiles[pos].owner = NoOwner
            /\ tiles[pos].houses = 0
            /\ ~tiles[pos].is_mortgaged

\* the engine has just been set up for three players and no call was made
C20_Witness ==
  /\ calls = 0
  /\ result = NoResult
  /\ Len(player_order) = 3
  /\ G = initialize(player_order)

\* C21: in a started game, perform_action under a player name other than
\* the name of the engine's current player (a registered name or not)
\* returns the not-your-turn error and leaves the engine, the action
\* counter and every other field of the server as they were, for every
\* action string and position, whatever the phase.
C21_NotYourTurn ==
  is_game_started =>
    \A player_name \in (Names \cup {"Z"}) \ {current_player(G)} :
      \A r \in Requests :
        \A s \in perform_action_for_api(SV, player_name, r[1], r[2]) :
          /\ s.reply.status = "error"
          /\ s.reply.error = "not_your_turn"
          /\ s.game_engine = G
          /\ s.actions_this_turn = actions_this_turn
          /\ [s EXCEPT !.reply = reply] = SV

\* the service has just refused a request made out of turn, in a turn that
\* is complete and in which the current player has made requests
C21_Witness ==
  /\ reply.error = "not_your_turn"
  /\ phase = TURN_COMPLETE
  /\ actions_this_turn > 0


\* a thread is inside a function of the service from taking the lock to the
\* return
Inside(t) == request[t].stage = "locked"

\* at most one thread is inside, and it is the one the lock names
OneInside ==
  /\ \A t, u \in Threads : Inside(t) /\ Inside(u) => t = u
  /\ \A t \in Threads : Inside(t) <=> lock = t

\* what the thread inside has left to do is what its function does to the
\* state as it is, in one piece: nothing it read has changed
InOnePiece ==
  \A t \in Threads : Inside(t) => rest(request[t]) = whole(request[t])

\* the server state changes only in the step in which the thread that holds
\* the lock returns
Serialized ==
  [][SV' # SV =>
       \E t \in Threads :
         /\ Inside(t)
         /\ lock = t
         /\ lock' = NoThread
         /\ request'[t] = NoRequest]_vars

\* two end_turn requests made under the same name while the turn counter
\* had the same value have returned
Raced(t, u) ==
  /\ t # u
  /\ served[t].done
  /\ served[u].done
  /\ served[t].player_name = served[u].player_name
  /\ served[t].turn = served[u].turn

\* of two such requests, the one carried out second is refused unless other
\* requests have meanwhile given the turn to another player and back
AdvancedOnce ==
  \A t, u \in Threads :
    Raced(t, u) /\ served[t].advanced /\ served[u].advanced
      => served[u].at - served[t].at \notin {-1, 0, 1}

C23_CeilingEndsTheTurn ==
  [][reply'.warning /\ SV' # SV =>
       \/ current_player(G') # current_player(G)
       \/ phase' = GAME_OVER]_vars

\* the names of a list are pairwise distinct
Distinct(names) ==
  \A i, j \in 1..Len(names) : names[i] = names[j] => i = j

\* a registration is accepted only in the lobby and only for a new name,
\* which it appends; any other registration changes nothing
Registration ==
  [][reply'.op = "register_player" /\ SV' # SV =>
       IF reply'.status = "ok"
         THEN /\ ~is_game_started
              /\ \E n \in Registrants :
                   /\ ~InSeq(n, registered_players)
                   /\ registered_players' = Append(registered_players, n)
              /\ ~is_game_started'
         ELSE /\ is_game_started \/ Len(registered_players) > 0
              /\ [SV' EXCEPT !.reply = reply] = SV]_vars

\* start succeeds only in the lobby with two players or more, and seats the
\* registered players in their order; any other start changes nothing
Starting ==
  [][reply'.op = "start_game" /\ SV' # SV =>
       IF reply'.status = "ok"
         THEN /\ ~is_game_started
              /\ Len(registered_players) >= 2
              /\ is_game_started'
              /\ registered_players' = registered_players
              /\ player_order' = registered_players
         ELSE /\ is_game_started \/ Len(registered_players) < 2
              /\ [SV' EXCEPT !.reply = reply] = SV]_vars

\* a game is started by a start only, and its seats stay until it is reset
Seated ==
  [][/\ is_game_started' /\ ~is_game_started => reply'.op = "start_game"
     /\ is_game_started' /\ is_game_started =>
          /\ player_order' = player_order
          /\ registered_players' = registered_players
     /\ is_game_started /\ ~is_game_started' => reply'.op = "reset_game"]_vars

\* the players of a started game
Seats ==
  is_game_started =>
    /\ Len(player_order) >= 2
    /\ Distinct(player_order)
    /\ player_order = registered_players

\* C24: the lobby protocol of the service: a registration is accepted only
\* while no game is started and only for a name not yet registered; start
\* succeeds only when no game is started and two players or more are
\* registered; so a started game has two or more pairwise distinct players
\* in its order, which stays as it is until the reset.
C24_LobbyProtocol == Registration /\ Starting /\ Seated /\ []Seats

\* B, C and A registered in this order from the empty lobby and the game
\* was started with these seats
C24_Witness ==
  /\ is_game_started
  /\ reply.op = "start_game"
  /\ reply.status = "ok"
  /\ player_order = <<"B", "C", "A">>
  /\ turn_number = 0

\* the colors of COLOR_GROUPS
Colors ==
  {"brown", "light_blue", "pink", "orange", "red", "yellow", "green",
   "dark_blue"}

\* the positions of the color group of a tile (none for a tile of no group)
GroupOf(pos) ==
  IF Tile(pos).type = PROPERTY
    THEN {COLOR_GROUPS(Tile(pos).color)[i] :
            i \in 1 .. Len(COLOR_GROUPS(Tile(pos).color))}
    ELSE {}

\* C25: even building holds in every reachable state: within each color
\* group the house counts differ by at most one, every house count is in
\* 0..5, and a tile with a house belongs to a color group whose tiles all
\* have the same owner, a player who holds them all.
C25_EvenBuilding ==
  /\ \A color \in Colors :
       \A i, j \in 1 .. Len(COLOR_GROUPS(color)) :
         tiles[COLOR_GROUPS(color)[i]].houses
           - tiles[COLOR_GROUPS(color)[j]].houses \in {-1, 0, 1}
  /\ \A pos \in Positions : tiles[pos].houses \in 0 .. MaxHouses
  /\ \A pos \in Positions :
       tiles[pos].houses > 0 =>
         /\ GroupOf(pos) # {}
         /\ \E p \in DOMAIN players :
              \A q \in GroupOf(pos) :
                tiles[q].owner = p /\ InSeq(q, players[p].properties)

\* a house was built that made the counts of a group differ, on a group
\* that holds a hotel after it
C25_Witness ==
  /\ result.status = "ok"
  /\ result.op = "build_house"
  /\ \E pos \in Positions :
       /\ tiles[pos].houses = MaxHouses
       /\ \E q \in GroupOf(pos) : tiles[q].houses = MaxHouses - 1

\* C26: in every reachable state a tile with a house is not mortgaged:
\* mortgage_property is rejected on a tile with houses and build_house is
\* rejected on a mortgaged tile, whatever builds, mortgages and unmortgages
\* came before.
C26_NoHouseOnMortgagedTile ==
  \A pos \in Positions :
    /\ tiles[pos].houses > 0 => ~tiles[pos].is_mortgaged
    /\ tiles[pos].houses > 0 => mortgage_property(G, pos) = {error(G)}
    /\ tiles[pos].is_mortgaged => build_house(G, pos) = {error(G)}

\* a house was built on a tile of a color group another tile of which is
\* mortgaged
C26_Witness ==
  /\ result.status = "ok"
  /\ result.op = "build_house"
  /\ \E pos \in Positions :
       /\ tiles[pos].houses > 0
       /\ tiles[pos].owner = current_player(G)
       /\ \E q \in GroupOf(pos) : tiles[q].is_mortgaged

\* the numbers of card-forced landings the rolls open to the current player
\* can end in: the landing of roll_and_move is the direct one
ForcedLandings ==
  IF phase # WAITING_FOR_ROLL THEN {}
  ELSE LET p == current_player(G)
       IN UNION {landings(advance(G, p, d1 + d2), p) : d1 \in Dice, d2 \in Dice}

\* the same for a landing of the current player on any tile of the board,
\* with the decks as they are
LandingsAnywhere ==
  LET p == current_player(G)
  IN UNION {landings([G EXCEPT !.players[p].position = pos], p) :
              pos \in Positions}

\* the number of cards the step took from the two decks that move the
\* player: each of them is followed by one call of _handle_landing
DrawnMoves ==
  Cardinality({c \in chance_deck \ chance_deck' :
                 CHANCE_CARDS[c].type \in Moving})
    + Cardinality({c \in community_deck \ community_deck' :
                     COMMUNITY_CARDS[c].type \in Moving})

\* C27: the landing resolution of one roll_and_move is the direct landing
\* and at most one card-forced landing.
C27_OneForcedLanding == [][Returned("roll_and_move") => DrawnMoves <= 1]_vars

\* C27 as amended: the landing resolution of one roll_and_move ends after
\* the direct landing and at most two card-forced landings, from every
\* position of the board and whichever cards come next in the two decks;
\* a roll_and_move that finds cards in both decks takes as many moving
\* cards as one of the counted chains has card-forced landings.
C27_TwoForcedLandings ==
  /\ [](\A n \in ForcedLandings \cup LandingsAnywhere : n <= 2)
  /\ [][Returned("roll_and_move") =>
          /\ DrawnMoves <= 2
          /\ chance_deck # {} /\ community_deck # {} =>
               DrawnMoves \in ForcedLandings]_vars

\* a roll ended on Chance, the card sent the player back three tiles to
\* Community Chest, and the card drawn there sent the player on to GO
C27_Witness ==
  /\ result.status = "ok"
  /\ result.op = "roll_and_move"
  /\ players[current_player(G)].position = 0
  /\ 10 \notin chance_deck
  /\ 1 \notin community_deck

\* the engine as the card found it, with p on the tile the card names and
\* the credit given, before that tile is resolved: the dice, the doubles
\* count and the deck of the card are those the step leaves
Relocated(p, is_chance, dest, credit) ==
  [G EXCEPT !.players[p].position = dest,
            !.players[p].money =
              advance(G, p, last_dice'[1] + last_dice'[2]).players[p].money
                + credit,
            !.players[p].doubles_count = players'[p].doubles_count,
            !.last_dice = last_dice',
            !.chance_deck = IF is_chance THEN chance_deck' ELSE @,
            !.community_deck = IF is_chance THEN @ ELSE community_deck',
            !.phase = TURN_COMPLETE]

\* the step ends as a landing of p on dest does after the credit
LandsOn(p, is_chance, dest, credit) ==
  \E h \in handle_landing(Relocated(p, is_chance, dest, credit), p,
                           last_dice'[1] + last_dice'[2]) :
    /\ players' = h.players
    /\ tiles' = h.tiles
    /\ chance_deck' = h.chance_deck
    /\ community_deck' = h.community_deck
    /\ phase' \in {h.phase, WAITING_FOR_ROLL}

\* C28: a card that moves the player to a named position credits 200 if
\* and only if that position is less than the position the player had when
\* the card was drawn, a card that moves the player back by a number of
\* tiles credits nothing, and in both cases the tile the player comes to is
\* resolved as a landing.  Stated of the roll_and_move steps that end on a
\* card tile and take such a card from its deck.
C28_CardMoveCredit ==
  [][MovedByDice /\ Tile(DiceTile).type \in {CHANCE, COMMUNITY_CHEST} =>
       LET p == current_player(G)
           is_chance == Tile(DiceTile).type = CHANCE
           cards == IF is_chance THEN CHANCE_CARDS ELSE COMMUNITY_CARDS
           taken == IF is_chance THEN chance_deck \ chance_deck'
                    ELSE community_deck \ community_deck'
       IN \A c \in taken :
            /\ cards[c].type = "move" =>
                 LandsOn(p, is_chance, cards[c].to,
                         IF cards[c].to < DiceTile THEN GoBonus ELSE 0)
            /\ cards[c].type = "move_back" =>
                 LandsOn(p, is_chance,
                         (DiceTile - cards[c].spaces) % BoardSize, 0)]_vars

\* in the first turn of a game the first player came to the Chance tile at
\* 7, drew the card that names Reading Railroad at 5, was credited 200 and
\* is offered the railroad
C28_Witness ==
  /\ result.status = "ok"
  /\ result.op = "roll_and_move"
  /\ turn_number = 0
  /\ chance_deck = DOMAIN CHANCE_CARDS \ {4}
  /\ community_deck = DOMAIN COMMUNITY_CARDS
  /\ players[current_player(G)].position = CHANCE_CARDS[4].to
  /\ players[current_player(G)].money = StartMoney + GoBonus
  /\ phase = WAITING_FOR_BUY_DECISION

\* the three operations on a holding
HoldingOps == {"build_house", "mortgage_property", "unmortgage_property"}

\* the step changed the tile at pos as the operation op does and the cash
\* of the current player by the amount of the operation
Changed(op, pos) ==
  LET p == current_player(G)
  IN /\ tiles[pos].owner = p
     /\ op = "build_house" =>
          /\ tiles' = [tiles EXCEPT ![pos].houses = @ + 1]
          /\ players' = [players EXCEPT ![p].money = @ - Tile(pos).house_cost]
     /\ op = "mortgage_property" =>
          /\ ~tiles[pos].is_mortgaged
          /\ tiles' = [tiles EXCEPT ![pos].is_mortgaged = TRUE]
          /\ players' = [players EXCEPT ![p].money = @ + Tile(pos).mortgage]
     /\ op = "unmortgage_property" =>
          /\ tiles[pos].is_mortgaged
          /\ tiles' = [tiles EXCEPT ![pos].is_mortgaged = FALSE]
          /\ players' = [players EXCEPT ![p].money = @ - unmortgage_cost(pos)]

\* C29: build_house, mortgage_property and unmortgage_property leave the
\* phase as it is, and with it the current player, the turn counter, the
\* order of the players, the dice, both decks, every player's position,
\* jail fields and holdings, every tile's owner and every other player's
\* cash.  A success changes the cash of the acting player and the house
\* count or the mortgage flag of one tile of that player, and nothing else
\* of the game but the log, which gains its entry.
C29_HoldingOpsFrame ==
  [][result'.status = "ok" /\ result'.op \in HoldingOps =>
       /\ phase' = phase
       /\ UNCHANGED <<player_order, current_player_idx, turn_number,
                      last_dice, chance_deck, community_deck>>
       /\ messages' = Min(messages + 1, MaxLog)
       /\ \E pos \in Positions : Changed(result'.op, pos)]_vars

\* a house was built while the purchase of the tile the player stands on
\* was still open
C29_Witness ==
  /\ result.status = "ok"
  /\ result.op = "build_house"
  /\ phase = WAITING_FOR_BUY_DECISION

\* the log of the state with its entries named by their rank, the oldest
\* being 1
Entries == [i \in 1 .. messages |-> i]

\* C30: the event log is bounded: after initialize and after every engine
\* operation it holds at most 50 entries; _log on a full log drops the
\* oldest entry and no other, and keeps every entry while the log is not
\* full; get_full_state reports the 10 most recent entries, or all of them
\* when there are fewer.
C30_BoundedLog ==
  LET msg == messages + 1
      logged == log_messages(Entries, msg)
      dropped == messages + 1 - Len(logged)
      recent == recent_messages(Entries)
  IN /\ messages \in 0 .. MaxLog
     /\ Len(logged) = log(G).messages
     /\ Len(logged) <= MaxLog
     /\ dropped = IF messages = MaxLog THEN 1 ELSE 0
     /\ \A i \in 1 .. Len(logged) :
          logged[i] = Append(Entries, msg)[i + dropped]
     /\ Len(recent) = Min(RecentMessages, messages)
     /\ \A i \in 1 .. Len(recent) :
          recent[i] = Entries[messages - Len(recent) + i]

\* the log of a new game, 40 entries long after initialize, has become full
\* within the first turn
C30_Witness ==
  /\ turn_number = 0
  /\ result.status = "ok"
  /\ messages = MaxLog

(***************************************************************************)
(* C31  A jailed player stands on the jail tile: in every state, a player  *)
(* whose in_jail flag is set is on position 10.                            *)
(***************************************************************************)
C31_JailedOnJailTile ==
  \A p \in DOMAIN players :
    players[p].in_jail => players[p].position = JailPosition

(***************************************************************************)
(* C32  get_available_actions is complete for the operations of the turn:  *)
(* whenever roll_and_move, buy_current_property, decline_purchase,         *)
(* pay_bail, use_jail_card, roll_for_doubles or end_turn can return a      *)
(* result that is not an error, get_available_actions lists its action     *)
(* name in the same state; the three jail operations succeed in phase      *)
(* IN_JAIL only.                                                           *)
(***************************************************************************)
C32_AvailableActionsComplete ==
  LET listed == get_available_actions(G).actions
      succeeds(outcomes) == \E h \in outcomes : h.result.status # "error"
  IN /\ succeeds(roll_and_move(G)) => "roll_dice_and_move" \in listed
     /\ succeeds(buy_current_property(G)) => "buy_property" \in listed
     /\ succeeds(decline_purchase(G)) => "decline_purchase" \in listed
     /\ succeeds(end_turn(G)) => "end_turn" \in listed
     /\ succeeds(pay_bail(G)) =>
          "pay_jail_bail" \in listed /\ phase = IN_JAIL
     /\ succeeds(use_jail_card(G)) =>
          "use_jail_card" \in listed /\ phase = IN_JAIL
     /\ succeeds(roll_for_doubles(G)) =>
          "roll_for_doubles" \in listed /\ phase = IN_JAIL

(***************************************************************************)
(* C33  The cash of a bankrupt player is final: no step of any operation   *)
(* changes the money of a player whose bankrupt flag is set, the rent for  *)
(* a tile that player still owns included.                                 *)
(***************************************************************************)
C33_BankruptCashIsFinal ==
  [][\A p \in DOMAIN players :
       players[p].bankrupt => players'[p].money = players[p].money]_vars

\* the rent the step pays to q: the rent of the tile the current player ends
\* on, when the step is a roll_and_move that ends the movement on a tile of q
RentReceived(q) ==
  LET p == current_player(G)
      pos == players'[p].position
  IN IF Returned("roll_and_move") /\ tiles[pos].owner = q
       THEN calculate_rent(G, pos, last_dice'[1] + last_dice'[2])
       ELSE 0

(***************************************************************************)
(* C34  An operation acts on the current player alone: every step leaves   *)
(* the record of every other player (position, jail flag and attempts,     *)
(* jail cards, holdings, doubles counter, bankrupt flag) and the tiles     *)
(* that player owns as they were, but for the cash, which never goes down  *)
(* and goes up by exactly the rent for the tile the current player landed  *)
(* on.                                                                     *)
(***************************************************************************)
C34_OthersOnlyReceiveRent ==
  [][LET p == current_player(G)
     IN \A q \in DOMAIN players \ {p} :
          /\ RentReceived(q) >= 0
          /\ players'[q] =
               [players[q] EXCEPT !.money = @ + RentReceived(q)]
          /\ \A pos \in Positions :
               tiles[pos].owner = q => tiles'[pos] = tiles[pos]]_vars

\* roll_and_move has just charged the current player a rent above zero for
\* the tile of another player
C34_Witness ==
  LET p == current_player(G)
      pos == current_tile(G)
  IN /\ result.status = "ok" /\ result.op = "roll_and_move"
     /\ phase = TURN_COMPLETE
     /\ tiles[pos].owner \notin {NoOwner, p}
     /\ calculate_rent(G, pos, last_dice[1] + last_dice[2]) > 0

\* the operations by which a player chooses to pay
VoluntaryPayments ==
  {"buy_current_property", "build_house", "unmortgage_property", "pay_bail"}

\* the step is the third failed roll_for_doubles of the current player, which
\* charges the bail
ForcedBailStep ==
  LET p == current_player(G)
  IN /\ Returned("roll_for_doubles")
     /\ last_dice'[1] # last_dice'[2]
     /\ players[p].jail_turns + 1 >= MaxJailTurns
     /\ players'[p].money = players[p].money - Bail

(***************************************************************************)
(* C35  Voluntary payments never overdraw: a successful                    *)
(* buy_current_property, build_house, unmortgage_property or pay_bail      *)
(* takes money from the current player and leaves that player's cash at 0  *)
(* or more; a step in which the cash of any player goes from 0 or more to  *)
(* below 0 is a roll_and_move (rent, tax or a money card) or the forced    *)
(* bail of the third failed roll_for_doubles.                              *)
(***************************************************************************)
C35_NoVoluntaryOverdraft ==
  [][LET p == current_player(G)
     IN /\ (\E op \in VoluntaryPayments : Returned(op)) =>
             /\ players'[p].money < players[p].money
             /\ players'[p].money >= 0
        /\ \A q \in DOMAIN players :
             players[q].money >= 0 /\ players'[q].money < 0 =>
               /\ q = p
               /\ Returned("roll_and_move") \/ ForcedBailStep]_vars

\* a voluntary payment has just taken the last of the cash of the current
\* player
C35_Witness ==
  /\ result.status = "ok"
  /\ result.op \in VoluntaryPayments
  /\ players[current_player(G)].money = 0

\* the number of times pos occurs in the holdings of p
Occurrences(p, pos) ==
  Cardinality({i \in 1 .. Len(players[p].properties) :
                 players[p].properties[i] = pos})

\* the ledger and the holdings say the same: the owner of a tile is the one
\* player who holds its position, once, and only ownable tiles have an owner
LedgerAgrees ==
  \A pos \in Positions :
    /\ tiles[pos].owner \in DOMAIN players \cup {NoOwner}
    /\ tiles[pos].owner # NoOwner => Tile(pos).type \in Ownable
    /\ \A p \in DOMAIN players :
         /\ tiles[pos].owner = p <=> InSeq(pos, players[p].properties)
         /\ Occurrences(p, pos) <= 1
         /\ \A i \in 1 .. Len(players[p].properties) :
              players[p].properties[i] \in Positions

\* a tile that has an owner keeps it, and a player keeps every holding
OwnersStay ==
  [][/\ \A pos \in Positions :
          tiles[pos].owner # NoOwner => tiles'[pos].owner = tiles[pos].owner
     /\ \A p \in DOMAIN players :
          \A i \in 1 .. Len(players[p].properties) :
            /\ i <= Len(players'[p].properties)
            /\ players'[p].properties[i] = players[p].properties[i]]_vars

(***************************************************************************)
(* C36  The property ledger and the player records agree in every state:   *)
(* the owner of a tile is p exactly when the position is among p's         *)
(* holdings, no position occurs twice in the holdings of all players, only *)
(* PROPERTY, RAILROAD and UTILITY tiles are owned, and the owner of a tile *)
(* never changes once assigned.                                            *)
(***************************************************************************)
C36_LedgerAndHoldings == []LedgerAgrees /\ OwnersStay

\* buy_current_property has just added the tile the current player stands on
\* to the holdings that player had, in a game in which another player holds
\* tiles too
C36_Witness ==
  /\ result.status = "ok" /\ result.op = "buy_current_property"
  /\ \E p \in DOMAIN players :
       /\ p = current_player(G)
       /\ Len(players[p].properties) >= 2
       /\ tiles[current_tile(G)].owner = p
  /\ \E q \in DOMAIN players \ {current_player(G)} :
       players[q].properties # <<>>

\* the numbers of credits of the 200 that one roll_and_move of the current
\* player can make, by the dice and by the cards together (the third double
\* goes to jail without moving)
GoCredits ==
  IF phase # WAITING_FOR_ROLL THEN {}
  ELSE LET p == current_player(G)
           jailed(d1, d2) ==
             d1 = d2 /\ players[p].doubles_count + 1 >= MaxDoubles
       IN UNION {IF jailed(d1, d2) THEN {0}
                 ELSE {dice_credits(G, p, d1 + d2) + n :
                         n \in card_credits(advance(G, p, d1 + d2), p)} :
                 d1 \in Dice, d2 \in Dice}

\* the numbers of credits the cards can make for a landing of the current
\* player on any tile of the board, with the decks as they are
CardCreditsAnywhere ==
  LET p == current_player(G)
  IN UNION {card_credits([G EXCEPT !.players[p].position = pos], p) :
              pos \in Positions}

\* the step is a roll_and_move that a card ended on GO: the tile does
\* nothing, so what the step adds to the cash of the player is the credits
EndedOnGoByCard ==
  /\ Returned("roll_and_move")
  /\ DrawnMoves >= 1
  /\ players'[current_player(G)].position = 0

\* what the step adds to the cash of the current player
Gain == players'[current_player(G)].money - players[current_player(G)].money

\* C37: one roll_and_move, the dice movement and the relocations by cards
\* together, credits the 200 for passing GO at most once.
C37_OneGoBonus ==
  /\ [](\A n \in GoCredits : n <= 1)
  /\ [][EndedOnGoByCard => Gain <= GoBonus]_vars

\* C37 as amended: one roll_and_move credits the 200 at most once for the
\* dice movement and at most once for the relocations by cards, at most
\* twice together; a roll_and_move that a card ends on GO adds to the cash
\* of the player the 200 once or twice, as one of the counted chains does.
C37_TwoGoBonuses ==
  /\ [](\A n \in GoCredits : n <= 2)
  /\ [](\A n \in CardCreditsAnywhere : n <= 1)
  /\ [](\A d \in 2 .. 2 * DieFaces :
          dice_credits(G, current_player(G), d) \in {0, 1})
  /\ [][EndedOnGoByCard =>
          /\ Gain \in {GoBonus, 2 * GoBonus}
          /\ chance_deck # {} /\ community_deck # {} =>
               Gain \in {n * GoBonus : n \in GoCredits}]_vars

\* A has rolled from Boardwalk past GO onto a card tile, has drawn
\* 'Advance to GO', and stands on GO with the 200 twice on top of the 115
C37_Witness ==
  /\ result.status = "ok"
  /\ result.op = "roll_and_move"
  /\ calls = 1
  /\ player_order = <<"A", "B", "C">>
  /\ players["A"].position = 0
  /\ players["A"].money = 115 + 2 * GoBonus

\* every perform_action request made in the server state as it is: the name
\* it is made under and the server state it leaves
Performed ==
  UNION {{[player_name |-> player_name, left |-> s] :
            s \in perform_action_for_api(SV, player_name, r[1], r[2])} :
         player_name \in Names, r \in Requests}

\* the turn counter has reached max_turns: every perform_action request is
\* refused and leaves the server and the engine as they were, the one of
\* the current player with the game-over error
Closed ==
  is_game_started /\ turn_number >= max_turns =>
    \A c \in Performed :
      /\ c.left = [SV EXCEPT !.reply = c.left.reply]
      /\ c.left.reply.status = "error"
      /\ c.left.reply.error =
           IF c.player_name = current_player(G)
             THEN "game_over" ELSE "not_your_turn"

(***************************************************************************)
(* C38  The turn counter of the engine of the service never exceeds        *)
(* max_turns: once it has reached max_turns every perform_action request   *)
(* of the current player returns the game-over error and no request        *)
(* changes the engine, and no call of the service takes the counter of a   *)
(* game up by more than one.                                               *)
(***************************************************************************)
C38_TurnCeiling ==
  /\ [](is_game_started => turn_number <= max_turns)
  /\ []Closed
  /\ [][is_game_started /\ is_game_started' /\ turn_number' # turn_number =>
          /\ turn_number < max_turns
          /\ turn_number' \in {0, turn_number + 1}]_vars

\* the game has reached turn 100 and the current player has just been told
\* that the game is over
C38_Witness ==
  /\ is_game_started
  /\ turn_number = max_turns
  /\ phase # GAME_OVER
  /\ reply.op = "perform_action"
  /\ reply.error = "game_over"

(***************************************************************************)
(* The agent games: backend/agents/game_orchestrator.py and the routes of  *)
(* backend/api/routes.py that reach it.  mcp_server.py hands the functions *)
(* of the service to the orchestrator (set_callbacks) and to the routes    *)
(* (setup_game_resetter, setup_orchestrator), so neither is ever None when *)
(* a request arrives.  A request is one step: the routes are coroutines    *)
(* that do not await between their first test and the return of            *)
(* orchestrator.start_game.                                                *)
(***************************************************************************)

\* AVAILABLE_AGENTS: three of the eight agents, id |-> name
AVAILABLE_AGENTS ==
  [agent_id \in {"gpt-oss", "gpt-4o-mini", "claude-3.5-haiku"} |->
     CASE agent_id = "gpt-oss" -> "gpt-oss"
       [] agent_id = "gpt-4o-mini" -> "GPT-4.1  Mini"
       [] agent_id = "claude-3.5-haiku" -> "claude-3.5-haiku"]

\* get_agent_by_id returns None for an id of no agent
NoAgent == "None"

\* get_agent_by_id: the agent is known here by its name
get_agent_by_id(agent_id) ==
  IF agent_id \in DOMAIN AVAILABLE_AGENTS THEN AVAILABLE_AGENTS[agent_id]
  ELSE NoAgent

\* the fewest and the most agents a game is started with
MinAgents == 2
MaxAgents == 4

\* the lists of agent ids the requests carry: one agent, two, three, two
\* of which one is no agent, the same agent twice, and five
AgentSelections ==
  {<<"gpt-oss">>,
   <<"gpt-oss", "gpt-4o-mini">>,
   <<"gpt-oss", "gpt-4o-mini", "claude-3.5-haiku">>,
   <<"gpt-oss", "no-such-agent">>,
   <<"gpt-oss", "gpt-oss">>,
   <<"gpt-oss", "gpt-4o-mini", "claude-3.5-haiku", "gpt-oss", "gpt-4o-mini">>}

\* the server state s and the orchestrator o a request leaves
Left(s, o) == [server |-> s, orchestrator |-> o]

RECURSIVE register_agents(_, _)
\* the loop "for agent in agents" of GameOrchestrator.start_game: each
\* agent that get_agent_by_id found is registered under its name, and what
\* the registration returns goes to the thoughts only
register_agents(s, agent_ids) ==
  IF agent_ids = <<>> THEN {s}
  ELSE LET agent == get_agent_by_id(Head(agent_ids))
       IN IF agent = NoAgent THEN register_agents(s, Tail(agent_ids))
          ELSE UNION {register_agents(r, Tail(agent_ids)) :
                        r \in register_player_for_api(s, agent)}

\* GameOrchestrator.start_game on the server state s: the four rejections,
\* then the registrations, game_starter(), whose result also goes to the
\* thoughts only, and the start of the game loop
orchestrator_start_game(s, o, agent_ids, op) ==
  IF o.is_running THEN {Left(refuse(s, op, "running"), o)}
  ELSE IF Len(agent_ids) < MinAgents THEN {Left(refuse(s, op, "too_few"), o)}
  ELSE IF Len(agent_ids) > MaxAgents THEN {Left(refuse(s, op, "too_many"), o)}
  ELSE IF ~o.ai_client THEN {Left(refuse(s, op, "no_client"), o)}
  ELSE {Left(accept(t, op),
             [o EXCEPT !.selected_agents = agent_ids, !.is_running = TRUE]) :
          t \in UNION {start_game_for_api(r) :
                         r \in register_agents(s, agent_ids)}}

\* the route POST /agents/start-game: HTTP 400 for a wrong number of
\* agents, then _game_resetter(), then orchestrator.start_game, whose
\* result is the response
start_agent_game(s, o, agent_ids) ==
  IF Len(agent_ids) < MinAgents
    THEN {Left(refuse(s, "start_agent_game", "too_few"), o)}
  ELSE IF Len(agent_ids) > MaxAgents
    THEN {Left(refuse(s, "start_agent_game", "too_many"), o)}
  ELSE UNION {orchestrator_start_game(r, o, agent_ids, "start_agent_game") :
                r \in reset_game_for_api(s)}

\* the message "start_agent_game" of the websocket: an error message to
\* the sender for a wrong number of agents, else _game_resetter() and
\* orchestrator.start_game, whose result is broadcast
websocket_start_agent_game(s, o, agent_ids) ==
  IF Len(agent_ids) >= MinAgents /\ Len(agent_ids) <= MaxAgents
    THEN UNION {orchestrator_start_game(r, o, agent_ids,
                                        "websocket_start_agent_game") :
                  r \in reset_game_for_api(s)}
    ELSE {Left(refuse(s, "websocket_start_agent_game", "invalid_selection"),
               o)}

\* GameOrchestrator.stop_game, the whole of the route POST /agents/stop-game
\* and of the message "stop_agent_game"
stop_game(s, o) ==
  IF ~o.is_running THEN {Left(refuse(s, "stop_agent_game", "not_running"), o)}
  ELSE {Left(accept(s, "stop_agent_game"), [o EXCEPT !.is_running = FALSE])}

\* the message "reset_game" of the websocket: a running agent game is
\* stopped, then the server is reset
websocket_reset_game(s, o) ==
  {Left(r, [o EXCEPT !.is_running = FALSE]) : r \in reset_game_for_api(s)}

\* the task _game_loop is alive: is_running is set and the loop did not
\* end when it built agent_lookup, where get_agent_by_id(aid)["name"]
\* raises for an id of no agent, outside the try of the loop
loop_alive(o) ==
  /\ o.is_running
  /\ \A i \in 1 .. Len(o.selected_agents) :
       get_agent_by_id(o.selected_agents[i]) # NoAgent

\* agent_lookup of _game_loop: the names of the selected agents
agent_lookup(o) ==
  {get_agent_by_id(o.selected_agents[i]) : i \in 1 .. Len(o.selected_agents)}

\* bound of the exploration of the agent games: the number of actions the
\* agents take, counted from the initial state
MaxAgentTurns == 2

\* the server is in one of the states of ServiceStates, played there by
\* callers of the service, and the orchestrator is as constructed, with an
\* API key in the environment or without
AgentInit ==
  /\ \E s \in ServiceStates : Serving(s)
  /\ Quiet
  /\ \E key \in BOOLEAN :
       orchestrator = [GameOrchestrator EXCEPT !.ai_client = key]
  /\ streak = 0
  /\ calls = 0

\* one request to the routes of the agent games whose possible outcomes are
\* `outcomes`
Route(outcomes) ==
  /\ \E x \in outcomes :
       /\ Respond(x.server)
       /\ orchestrator' = x.orchestrator
  /\ UNCHANGED <<calls, lock, request, served>>

StartAgentGame ==
  \E agent_ids \in AgentSelections :
    Route(start_agent_game(SV, orchestrator, agent_ids))

WebsocketStartAgentGame ==
  \E agent_ids \in AgentSelections :
    Route(websocket_start_agent_game(SV, orchestrator, agent_ids))

StopAgentGame == Route(stop_game(SV, orchestrator))

WebsocketResetGame == Route(websocket_reset_game(SV, orchestrator))

\* one pass of the loop of _game_loop.  The state read is
\* get_game_state_for_api(): in the lobby it has no phase and no current
\* player, and with a player to move who is no agent the loop goes on to
\* its next pass.  A pass that finds the game over ends the loop.  In any
\* other phase the agent to move is asked for an action, and
\* _agent_think_and_act sends the action and the params of the model's
\* answer to action_handler as they are, so the request is any of
\* Requests.  The loop also ends after 200 such passes, which
\* MaxAgentTurns keeps out of reach.
AgentTurn ==
  /\ loop_alive(orchestrator)
  /\ is_game_started
  /\ IF phase = GAME_OVER
       THEN /\ orchestrator' = [orchestrator EXCEPT !.is_running = FALSE]
            /\ UNCHANGED <<engine_vars, service_vars, streak, calls>>
       ELSE /\ current_player(G) \in agent_lookup(orchestrator)
            /\ calls < MaxAgentTurns
            /\ \E r \in Requests :
                 \E s \in perform_action_for_api(SV, current_player(G),
                                                 r[1], r[2]) :
                   Respond(s)
            /\ calls' = calls + 1
            /\ UNCHANGED <<lock, request, served, orchestrator>>

AgentNext ==
  \/ StartAgentGame
  \/ WebsocketStartAgentGame
  \/ StopAgentGame
  \/ WebsocketResetGame
  \/ ResetGame
  \/ AgentTurn

AgentSpec == AgentInit /\ [][AgentNext]_vars

\* C39: a start-agent-game request that is rejected, whatever the reason,
\* leaves the registered players, the engine and the started flag of the
\* server as they were
C39_RejectedStartKeepsTheGame ==
  [][/\ reply'.op \in {"start_agent_game", "websocket_start_agent_game"}
     /\ reply'.status = "error"
     => /\ registered_players' = registered_players
        /\ G' = G
        /\ is_game_started' = is_game_started]_vars

====
